---- MODULE Spec2Model ----
(***************************************************************************)
(* The multi-team controller of the desktop client                         *)
(* (src/renderer/teams-view-controller, packed into renderer/main.js):     *)
(* the team list, its reconciliation against lists sent by the embedded    *)
(* pages, the primary (visible) team and the embedded webviews.            *)
(*                                                                         *)
(* JavaScript objects are modelled by value.  The one place where object   *)
(* identity matters to the controller is this.primaryTeam, a reference to  *)
(* a team object that mergeTeamList may replace in this.teamList by        *)
(* another object; primaryIsListObject records whether the object          *)
(* this.primaryTeam refers to is (still) an element of this.teamList.      *)
(***************************************************************************)
EXTENDS Integers, Sequences, FiniteSets, TLC

\* ------------------------------------------------------------------ bounds
\* Longest team list an embedded page sends.
MaxIncoming == 2
\* Webview contexts created by fetchTeam between two reloads of the window.
MaxWebViews == 3
\* Failed probes of one check loop that are told apart.
MaxFails == 3
\* Emissions recorded after the first failed probe of a check loop.
MaxEmitted == 3

\* --------------------------------------------------------------- constants
SIGNIN == "__signin__"
NoWebView == 0

\* The team ids and team names the embedded pages report.
TeamIds == {"T1", "T2"}
TeamNames == {"a", "b"}

\* The signed-in user's id on a team (`id` of a team record).
UserOf(team_id) == IF team_id = SIGNIN THEN SIGNIN ELSE "U_" \o team_id

VARIABLES
  teamList,               \* this.teamList: sequence of team records
  primaryTeam,            \* this.primaryTeam: a team record, or NoTeam for null
  primaryIsListObject,    \* the object primaryTeam refers to is an element of teamList
  primaryTeamDisp,        \* this.primaryTeamDisp: webview the current disposable hides, NoWebView when empty
  haveMergedTeamListOnce, \* this.haveMergedTeamListOnce
  isAuthInvalidated,      \* this.isAuthInvalidated
  loadingScreen,          \* which message of the LoadingScreen is displayed
  loginDialog,            \* [open, allowCancel] of the LoginDialog
  webViewId,              \* module counter of web-view-ctx: id of the next context (counted from 1)
  attached,               \* webviews whose element is in the team content host
  visible,                \* webviews whose style.visibility is 'visible'
  localStorage,           \* localStorage item "teamList"
  selector,               \* team ids of the .team-item elements of the selector
  last,                   \* summary of the handler that ran last
  browserOnline,          \* navigator.onLine
  checking,               \* "unsubscribed" before statusObservable is subscribed to, then
                          \* "running" while a repeatCheckUntilInternetWorks loop is alive, else "idle"
  throttled,              \* value held back by throttle(600): "none", "true" or "false"
  distinctPrev,           \* last value distinctUntilChanged let through, "none" before the first
  currentStatus,          \* NetworkStatus._currentStatus: "undefined", "true" or "false"
  netReason,              \* NetworkStatus._reason: "undefined", "offline" or "slackDown"
  obs,                    \* what has been observed of the current check loop and of the emissions
  calls,                  \* the executeJavaScript calls made on one SlackWebViewContext
  ipc,                    \* 'eval-async' messages the page has sent that webViewIpc has not delivered
  views,                  \* of every SlackWebViewContext, by webViewId: the state of its loading
  prefs,                  \* how many of allPrefs have an item in localStorage
  devMode,                \* global.loadSettings.devMode
  crashLog,               \* the crash event a webview raised last and what became of it
  lateLog,                \* the close event a webview raised last and whether it had been disposed
  badgeInfo,              \* team.badgeInfo of the teams, by team_id
  reported,               \* the connection status each team's page has reported last
  globalBadge,            \* what badgeManager.setGlobalBadgeCount was handed last
  badgeLog,               \* the badge message handled last and what became of it
  menuItems,              \* how many team items the browser's Window menu has
  menuPending,            \* updateTeamMenu waits for a webViewLoaded to send 'teams:update-menu'
  focusFollow,            \* the 'windowFocus' subscriptions that no disposable holds
  focused,                \* what the last 'windowFocus' event gave focus to
  downloadsByToken,       \* DownloadManager.downloadsByToken: state and request of each token
  starting,               \* by token, the startDownload calls that await getUniqueFileForUrl
  requests,               \* the requests requestFactory has made: token and status
  retriedFailed,          \* retryFailedDownloads has run (the webview has finished loading)
  signedOut,              \* the webviews whose page has signed out and closed
  refreshAsked,           \* the webviews whose page has been sent TS.refreshTeams()
  updates                 \* the 'update' messages of the pages that are in flight

ctlVars == <<teamList, primaryTeam, primaryIsListObject, primaryTeamDisp,
             haveMergedTeamListOnce, isAuthInvalidated, loadingScreen, loginDialog,
             webViewId, attached, visible, localStorage, selector, last>>

netVars == <<browserOnline, checking, throttled, distinctPrev, currentStatus,
             netReason, obs>>

evalVars == <<calls, ipc>>

viewVars == <<views, prefs, devMode, crashLog, lateLog>>

badgeVars == <<badgeInfo, reported, globalBadge, badgeLog>>

menuVars == <<menuItems, menuPending, focusFollow, focused>>

downloadVars == <<downloadsByToken, starting, requests, retriedFailed>>

signVars == <<signedOut, refreshAsked, updates>>

sideVars == <<evalVars, viewVars, badgeVars, menuVars, downloadVars, signVars>>

vars == <<ctlVars, netVars, sideVars>>

\* ----------------------------------------------------------------- records
\* A team record; webView / webViewLoaded are NoWebView while the property is absent.
Team(team_id, team_name, reason) ==
  [team_id |-> team_id, id |-> UserOf(team_id), team_name |-> team_name,
   reason |-> reason, webView |-> NoWebView, webViewLoaded |-> NoWebView]

\* null, as a value of this.primaryTeam / of the `team` parameter
NoTeam == [team_id |-> "null", id |-> "null", team_name |-> "null",
           reason |-> "null", webView |-> NoWebView, webViewLoaded |-> NoWebView]

\* The placeholder lists of the controller.
signinFakeTeamInfo == << Team(SIGNIN, "none", "didSignOut") >>
signinRequestedCloseInfo == << Team(SIGNIN, "none", "didSignIn") >>

\* ----------------------------------------------------------------- helpers
Range(s) == {s[i] : i \in DOMAIN s}
Ids(s) == {s[i].team_id : i \in DOMAIN s}
IdSeq(s) == [i \in DOMAIN s |-> s[i].team_id]

Min(S) == CHOOSE x \in S : \A y \in S : x <= y
Max(S) == CHOOSE x \in S : \A y \in S : x >= y

\* _.find(list, (x) => x.team_id === team_id): index of the first match, 0 if none
findIndex(list, team_id) ==
  LET hits == {i \in DOMAIN list : list[i].team_id = team_id}
  IN IF hits = {} THEN 0 ELSE Min(hits)

\* Keep the elements at the indices in `keep`, in order.
RECURSIVE SelectIdx(_, _, _)
SelectIdx(s, keep, i) ==
  IF i > Len(s) THEN << >>
  ELSE (IF i \in keep THEN << s[i] >> ELSE << >>) \o SelectIdx(s, keep, i + 1)

\* Number of occurrences of x in a sequence of ids.
Count(ids, x) == Cardinality({i \in DOMAIN ids : ids[i] = x})

\* _.isEqual(a.sort(), b.sort()) on arrays of ids: equal as multisets.
sortedIsEqual(a, b) ==
  /\ Len(a) = Len(b)
  /\ \A x \in Range(a) \cup Range(b) : Count(a, x) = Count(b, x)

\* ------------------------------------------------------------ reconciler
\* shouldMergeTeamList: [merge |-> result, flag |-> haveMergedTeamListOnce afterwards]
\* (_.map(null, ...) is []).
shouldMergeTeamList(tl, flag, isNull, updated) ==
  IF Len(tl) = 0 THEN [merge |-> TRUE, flag |-> flag]
  ELSE IF ~flag THEN [merge |-> TRUE, flag |-> TRUE]
  ELSE [merge |-> ~sortedIsEqual(IdSeq(tl), IF isNull THEN << >> ELSE IdSeq(updated)),
        flag |-> flag]

\* Step 1 that takes the first incoming team without the stub's webview.
fixupSigninTeamNoWebView(tl, updated) ==
  IF findIndex(tl, SIGNIN) # 0 /\ Len(updated) > 0 THEN << updated[1] >> ELSE tl

\* Step 1 of mergeTeamList: the '__signin__' stub is replaced by the first
\* incoming team, which takes over its webView and webViewLoaded.
fixupSigninTeam(tl, updated) ==
  LET s == findIndex(tl, SIGNIN)
  IN IF s # 0 /\ Len(updated) > 0
     THEN << [updated[1] EXCEPT
                !.webView = IF tl[s].webView # NoWebView THEN tl[s].webView ELSE @,
                !.webViewLoaded = IF tl[s].webViewLoaded # NoWebView
                                  THEN tl[s].webViewLoaded ELSE @] >>
     ELSE tl

\* Step 2 without its membership test: every incoming team is pushed.
RECURSIVE addNewTeamsUnchecked(_, _, _)
addNewTeamsUnchecked(tl, updated, i) ==
  IF i > Len(updated) THEN [teamList |-> tl, newTeams |-> << >>]
  ELSE LET rest == addNewTeamsUnchecked(Append(tl, updated[i]), updated, i + 1)
       IN [teamList |-> rest.teamList,
           newTeams |-> << updated[i].team_id >> \o rest.newTeams]

\* Step 2 of mergeTeamList: push the incoming teams not in the list, in order.
RECURSIVE addNewTeams(_, _, _)
addNewTeams(tl, updated, i) ==
  IF i > Len(updated) THEN [teamList |-> tl, newTeams |-> << >>]
  ELSE IF findIndex(tl, updated[i].team_id) # 0
       THEN addNewTeams(tl, updated, i + 1)
       ELSE LET rest == addNewTeams(Append(tl, updated[i]), updated, i + 1)
            IN [teamList |-> rest.teamList,
                newTeams |-> << updated[i].team_id >> \o rest.newTeams]

\* Step 3 without _.pick: the incoming object replaces the item as it is.
updatedRecordNoPick(tl, updated, team_id) ==
  updated[findIndex(updated, team_id)]

\* Step 3 of mergeTeamList for one team id: the incoming object, extended with
\* _.pick(item, 'webView', 'webViewLoaded', ...) of every list item of that id in
\* turn (pick copies only the properties the item has).
updatedRecord(tl, updated, team_id) ==
  LET new == updated[findIndex(updated, team_id)]
      wv == {i \in DOMAIN tl : tl[i].team_id = team_id /\ tl[i].webView # NoWebView}
      wl == {i \in DOMAIN tl : tl[i].team_id = team_id /\ tl[i].webViewLoaded # NoWebView}
  IN [new EXCEPT
        !.webView = IF wv = {} THEN @ ELSE tl[Max(wv)].webView,
        !.webViewLoaded = IF wl = {} THEN @ ELSE tl[Max(wl)].webViewLoaded]

\* Step 4 that collects the webview of every team, stale or not.
toDisposeOfAll(tl, shouldDelete) ==
  {tl[i].webView : i \in DOMAIN tl} \ {NoWebView}

\* Step 4 of mergeTeamList: the webviews of the teams marked shouldDelete.
toDisposeOf(tl, shouldDelete) ==
  {tl[i].webView : i \in shouldDelete} \ {NoWebView}

\* What presentAvailableTeams works with when nothing is merged.
unmerged(tl) ==
  [teamList |-> tl, newTeams |-> << >>, toDispose |-> {},
   refreshTeams |-> {}, replaced |-> FALSE, threw |-> FALSE]

\* Steps 0 to 4 of mergeTeamList, on a list that is not empty.
mergeTeamListSteps(tl, updated) ==
  IF findIndex(updated, SIGNIN) # 0
  THEN IF tl[1].webView = NoWebView
       THEN [unmerged(tl) EXCEPT !.threw = TRUE]
       ELSE [unmerged(tl) EXCEPT !.refreshTeams = {tl[1].webView}]
  ELSE
    LET fixed == fixupSigninTeam(tl, updated)
        added == addNewTeams(fixed, updated, 1)
        tl2 == added.teamList
        shouldDelete == {i \in DOMAIN tl2 : findIndex(updated, tl2[i].team_id) = 0}
        tl3 == [i \in DOMAIN tl2 |->
                  IF i \in shouldDelete THEN tl2[i]
                  ELSE updatedRecord(tl2, updated, tl2[i].team_id)]
    IN [teamList |-> SelectIdx(tl3, DOMAIN tl3 \ shouldDelete, 1),
        newTeams |-> added.newTeams,
        toDispose |-> toDisposeOf(tl3, shouldDelete),
        refreshTeams |-> {},
        replaced |-> TRUE,
        threw |-> FALSE]

\* mergeTeamList whose empty-list case reports the teams it takes as newly
\* added ones.
mergeTeamListReportsAdded(tl, isNull, updated) ==
  IF isNull THEN unmerged(tl)
  ELSE IF Len(tl) = 0
  THEN [unmerged(tl) EXCEPT !.teamList = updated, !.newTeams = IdSeq(updated),
                            !.replaced = TRUE]
  ELSE mergeTeamListSteps(tl, updated)

\* mergeTeamList: the new list, the ids of the newly added teams, the webviews
\* of the CompositeDisposable toDispose, the webviews sent refreshTeams, whether
\* the list now holds the incoming objects, and whether a TypeError was thrown.
mergeTeamList(tl, isNull, updated) ==
  IF isNull THEN unmerged(tl)
  ELSE IF Len(tl) = 0
  THEN [unmerged(tl) EXCEPT !.teamList = updated, !.replaced = TRUE]
  ELSE mergeTeamListSteps(tl, updated)

\* ------------------------------------------------------------ controller
\* The controller's fields as one record, with the effects a handler has had so
\* far (newTeams, toDispose, didMergeTeamList, loggedOffTheLastUser are the locals
\* of presentAvailableTeams, ignored its early return): teamChanged counts the 'teams:team-changed' messages sent, refreshTeams
\* and disposed collect the webviews sent refreshTeams() / dispose(), threw is
\* set once a TypeError has left the handler.
This ==
  [teamList |-> teamList, primaryTeam |-> primaryTeam,
   primaryIsListObject |-> primaryIsListObject, primaryTeamDisp |-> primaryTeamDisp,
   haveMergedTeamListOnce |-> haveMergedTeamListOnce,
   isAuthInvalidated |-> isAuthInvalidated,
   loadingScreen |-> loadingScreen, loginDialog |-> loginDialog,
   webViewId |-> webViewId, attached |-> attached, visible |-> visible,
   localStorage |-> localStorage, selector |-> selector,
   teamChanged |-> 0, refreshTeams |-> {}, disposed |-> {}, threw |-> FALSE,
   newTeams |-> << >>, toDispose |-> {}, didMergeTeamList |-> FALSE,
   loggedOffTheLastUser |-> FALSE, ignored |-> FALSE]

\* setDisposable that forgets the previous disposable instead of disposing it.
setPrimaryTeamDispLeaky(c, wv) ==
  [c EXCEPT !.primaryTeamDisp = wv]

\* SerialDisposable.setDisposable on this.primaryTeamDisp: the previous
\* disposable is disposed, which hides the webview of the team it captured.
setPrimaryTeamDisp(c, wv) ==
  [c EXCEPT !.visible = IF c.primaryTeamDisp # NoWebView
                        THEN @ \ {c.primaryTeamDisp} ELSE @,
            !.primaryTeamDisp = wv]

\* makeTeamPrimary without the early return for the team that is primary.
makeTeamPrimaryAgain(c, team) ==
  IF team = NoTeam
  THEN [setPrimaryTeamDisp(c, NoWebView) EXCEPT
          !.primaryTeam = NoTeam,
          !.primaryIsListObject = FALSE,
          !.loadingScreen = "trying",
          !.teamChanged = @ + 1]
  ELSE IF team.webView = NoWebView
  THEN [c EXCEPT !.loadingScreen = "hidden", !.teamChanged = @ + 1, !.threw = TRUE]
  ELSE [setPrimaryTeamDisp(c, team.webView) EXCEPT
          !.loadingScreen = "hidden",
          !.teamChanged = @ + 1,
          !.primaryTeam = team,
          !.primaryIsListObject = TRUE,
          !.visible = @ \cup {team.webView}]

\* makeTeamPrimary(team); team = NoTeam is makeTeamPrimary(null).
makeTeamPrimary(c, team) ==
  IF team = NoTeam
  THEN [setPrimaryTeamDisp(c, NoWebView) EXCEPT
          !.primaryTeam = NoTeam,
          !.primaryIsListObject = FALSE,
          !.loadingScreen = "trying",
          !.teamChanged = @ + 1]
  ELSE IF c.primaryTeam # NoTeam /\ team.team_id = c.primaryTeam.team_id
  THEN [c EXCEPT !.loadingScreen = "hidden"]
  ELSE IF team.webView = NoWebView
  THEN \* team.webView.crashed throws: nothing after line 393 has happened
       [c EXCEPT !.loadingScreen = "hidden", !.teamChanged = @ + 1, !.threw = TRUE]
  ELSE [setPrimaryTeamDisp(c, team.webView) EXCEPT
          !.loadingScreen = "hidden",
          !.teamChanged = @ + 1,
          !.primaryTeam = team,
          !.primaryIsListObject = TRUE,
          !.visible = @ \cup {team.webView}]

\* A context constructor that does not advance the id counter.
newWebViewContextSameId(c) ==
  [c EXCEPT !.attached = @ \cup {c.webViewId},
            !.visible = @ \ {c.webViewId}]

\* new SlackWebViewContext(opts) followed by attachToDom(): the context takes
\* the next id, is hidden by its constructor and appended to the host.
newWebViewContext(c) ==
  [c EXCEPT !.webViewId = @ + 1,
            !.attached = @ \cup {c.webViewId},
            !.visible = @ \ {c.webViewId}]

\* fetchTeam(teamId) (forceCreate is never passed).
fetchTeam(c, teamId) ==
  LET i == findIndex(c.teamList, teamId)
  IN IF i = 0 THEN c
     ELSE IF c.teamList[i].webView # NoWebView THEN c
     ELSE LET team == [c.teamList[i] EXCEPT !.webView = c.webViewId,
                                            !.webViewLoaded = c.webViewId]
              c1 == newWebViewContext(c)
          IN [c1 EXCEPT
                !.teamList[i] = team,
                !.primaryTeam = IF c.primaryIsListObject
                                   /\ c.primaryTeam.team_id = teamId
                                THEN team ELSE @]

\* A loop that fetches one team and stops.
fetchFirstTeam(c, i) ==
  IF i > Len(c.teamList) THEN c
  ELSE fetchTeam(c, c.teamList[i].team_id)

\* for (var team of this.teamList) this.fetchTeam(team.team_id)
RECURSIVE fetchAllTeams(_, _)
fetchAllTeams(c, i) ==
  IF i > Len(c.teamList) THEN c
  ELSE fetchAllTeams(fetchTeam(c, c.teamList[i].team_id), i + 1)

\* prepareTeamForSerialization / serializeTeamList
prepareTeamForSerialization(team) ==
  [team EXCEPT !.webView = NoWebView, !.webViewLoaded = NoWebView]

serializeTeamList(c) ==
  [c EXCEPT !.localStorage =
     [i \in DOMAIN c.teamList |-> prepareTeamForSerialization(c.teamList[i])]]

\* WebView.dispose() of every webview of toDispose: removed from the host.
disposeAll(c, wvs) ==
  [c EXCEPT !.attached = @ \ wvs, !.disposed = @ \cup wvs]

\* LoginDialog.show() after setCancelable(allowCancel); close()
showLoginDialog(c, allowCancel) ==
  [c EXCEPT !.loginDialog = [open |-> TRUE, allowCancel |-> allowCancel]]

closeLoginDialog(c) ==
  [c EXCEPT !.loginDialog.open = FALSE]

\* anyOtherTeam that also accepts the '__signin__' stub.
anyOtherTeamOrStub(tl) ==
  LET hits == {i \in DOMAIN tl : tl[i].webView # NoWebView}
  IN IF hits = {} THEN {} ELSE {tl[Min(hits)].webView}

\* _.find(this.teamList, (x) => x.id !== '__signin__' && x.webView)
anyOtherTeam(tl) ==
  LET hits == {i \in DOMAIN tl : tl[i].id # SIGNIN /\ tl[i].webView # NoWebView}
  IN IF hits = {} THEN {} ELSE {tl[Min(hits)].webView}

\* presentTeams that picks a team only while no team is primary.
presentTeamsKeepsPrimary(c) ==
  LET c3 == fetchAllTeams(c, 1)
      c4 == IF Len(c3.newTeams) > 0
            THEN makeTeamPrimary(c3, c3.teamList[findIndex(c3.teamList, c3.newTeams[1])])
            ELSE IF c3.primaryTeam = NoTeam
                 THEN makeTeamPrimary(c3, c3.teamList[1])
                 ELSE c3
      c5 == IF c4.didMergeTeamList
            THEN [c4 EXCEPT !.selector = IdSeq(c4.teamList)]
            ELSE c4
  IN IF c4.threw THEN c4 ELSE disposeAll(c5, c5.toDispose)

\* The tail of presentAvailableTeams, from the loop that fetches every team.
presentTeams(c) ==
  LET c3 == fetchAllTeams(c, 1)
      c4 == IF Len(c3.newTeams) > 0
            THEN makeTeamPrimary(c3, c3.teamList[findIndex(c3.teamList, c3.newTeams[1])])
            ELSE IF c3.primaryTeam = NoTeam
                    \/ findIndex(c3.teamList, c3.primaryTeam.team_id) = 0
                 THEN makeTeamPrimary(c3, c3.teamList[1])
                 ELSE c3
      c5 == IF c4.didMergeTeamList
            THEN [c4 EXCEPT !.selector = IdSeq(c4.teamList)]
            ELSE c4
  IN IF c4.threw THEN c4 ELSE disposeAll(c5, c5.toDispose)

\* The sign-out of the last user is never recognised.
loggedOffNever(tl, isNull, updatedTeamList) == FALSE

\* loggedOffTheLastUser of presentAvailableTeams.
loggedOffTheLastUser(tl, isNull, updatedTeamList) ==
  /\ ~isNull
  /\ Len(updatedTeamList) = 1
  /\ updatedTeamList[1].reason = "didSignOut"
  /\ updatedTeamList[1].id = SIGNIN
  /\ Len(tl) = 1

\* presentAvailableTeams(updatedTeamList); isNull stands for a null or
\* undefined argument.
presentAvailableTeams(c, isNull, updatedTeamList) ==
  LET logged == loggedOffTheLastUser(c.teamList, isNull, updatedTeamList)
      list1 == IF logged THEN << >> ELSE updatedTeamList
      bogus == /\ ~isNull
               /\ \E i \in DOMAIN list1 : list1[i].id = SIGNIN
               /\ Len(c.teamList) > 0
      c0 == [c EXCEPT !.loggedOffTheLastUser = logged,
                      !.refreshTeams = IF bogus THEN @ \cup anyOtherTeam(c.teamList) ELSE @]
      isNull1 == isNull \/ bogus
      should == shouldMergeTeamList(c0.teamList, c0.haveMergedTeamListOnce, isNull1, list1)
      tl == IF should.merge
            THEN mergeTeamList(c0.teamList, isNull1, list1)
            ELSE unmerged(c0.teamList)
      c1 == [c0 EXCEPT !.haveMergedTeamListOnce = should.flag,
                       !.teamList = tl.teamList,
                       !.primaryIsListObject = @ /\ ~tl.replaced,
                       !.refreshTeams = @ \cup tl.refreshTeams,
                       !.newTeams = tl.newTeams,
                       !.toDispose = tl.toDispose,
                       !.didMergeTeamList = should.merge /\ ~tl.threw,
                       !.threw = tl.threw]
      c2 == serializeTeamList(c1)
  IN IF bogus /\ ~logged THEN [c0 EXCEPT !.ignored = TRUE]
     ELSE IF c1.threw THEN c1
     ELSE IF Len(c2.teamList) = 0 \/ logged
     THEN showLoginDialog(makeTeamPrimary(c2, NoTeam), FALSE)
     ELSE presentTeams(c2)

\* The sorted handler when it keeps the first team of sortedIds only.
sortedTeamListFirst(tl, sortedIds, index) ==
  LET i == findIndex(tl, sortedIds[1])
  IN IF i = 0 THEN << >> ELSE << tl[i] >>

\* teamSelector.sorted handler: the teams named by sortedIds, in that order
\* (the selector's items are in that order when the event is sent).
RECURSIVE sortedTeamList(_, _, _)
sortedTeamList(tl, sortedIds, index) ==
  IF index > Len(sortedIds) THEN << >>
  ELSE LET i == findIndex(tl, sortedIds[index])
       IN (IF i = 0 THEN << >> ELSE << tl[i] >>) \o sortedTeamList(tl, sortedIds, index + 1)

sorted(c, sortedIds) ==
  LET tl == sortedTeamList(c.teamList, sortedIds, 1)
  IN serializeTeamList(
       [c EXCEPT !.teamList = tl,
                 !.selector = sortedIds,
                 !.primaryIsListObject = @ /\ c.primaryTeam.team_id \in Ids(tl)])

\* this.networkStatus.reason as the subscriber reads it: the method reason of
\* NetworkStatus itself, which the subscriber does not call; it is no string.
reasonMethod == "function"

\* The subscriber's answer to false that leaves the primary team alone.
wentOfflineKeepsPrimary(c, isOnline, why) ==
  [c EXCEPT !.loadingScreen = IF isOnline /\ why = "slackDown"
                              THEN "slackDown" ELSE "offline"]

\* The subscriber of statusObservable in setupNetworkStatusStateMachine on the
\* value false: makeTeamPrimary(null), then showSlackDown() or showOffline();
\* isOnline is browserIsOnline() and why is networkStatus.reason as the
\* handler reads them.
wentOffline(c, isOnline, why) ==
  [makeTeamPrimary(c, NoTeam) EXCEPT
     !.loadingScreen = IF isOnline /\ why = "slackDown"
                       THEN "slackDown" ELSE "offline"]

\* The subscriber of statusObservable in setupNetworkStatusStateMachine:
\* online is the value emitted.
statusChanged(c, online, isOnline, why) ==
  IF online THEN presentAvailableTeams(c, TRUE, << >>)
  ELSE wentOffline(c, isOnline, why)

\* The constructor of TeamsViewController in a fresh renderer process, followed
\* by attachToDom: the list is read back from local storage, nothing is primary,
\* no webview exists, the "Connecting" message is shown.
constructed(stored) ==
  [teamList |-> stored, primaryTeam |-> NoTeam,
   primaryIsListObject |-> FALSE, primaryTeamDisp |-> NoWebView,
   haveMergedTeamListOnce |-> FALSE, isAuthInvalidated |-> FALSE,
   loadingScreen |-> "trying",
   loginDialog |-> [open |-> FALSE, allowCancel |-> TRUE],
   webViewId |-> 1, attached |-> {}, visible |-> {},
   localStorage |-> stored, selector |-> << >>,
   teamChanged |-> 0, refreshTeams |-> {}, disposed |-> {}, threw |-> FALSE,
   newTeams |-> << >>, toDispose |-> {}, didMergeTeamList |-> FALSE,
   loggedOffTheLastUser |-> FALSE, ignored |-> FALSE]

\* ------------------------------------------------------------------ inputs
\* Team lists an embedded page reports: real teams, no team id twice.
RealLists ==
  {l \in UNION {[1..n -> {Team(t, nm, "none") : t \in TeamIds, nm \in TeamNames}]
                : n \in 0..MaxIncoming} :
     \A i, j \in DOMAIN l : i # j => l[i].team_id # l[j].team_id}

\* What TeamIntegration.refreshTeams sends from a page without TS.
DummyLists == {signinFakeTeamInfo, signinRequestedCloseInfo}

Orders(n) ==
  {p \in [1..n -> 1..n] : \A i, j \in 1..n : i # j => p[i] # p[j]}

\* ---------------------------------------------------------- network status
Str(b) == IF b THEN "true" ELSE "false"

\* throttle that keeps the value it holds and drops the newer one.
throttleKeepsFirst(held, x) == IF held = "none" THEN x ELSE held

\* .throttle(600, scheduler) on a new value x while it holds `held`: the newer
\* value replaces the held one and is emitted once 600 ms have passed without
\* another (the notification timeouts of notification-item.js rely on this).
throttle(held, x) == x

\* distinctUntilChanged that lets every value through.
distinctNever(prev, x) == TRUE

\* .distinctUntilChanged(): x goes on unless it is the value before it.
distinctUntilChanged(prev, x) == x # prev

\* A check loop that gives up after one probe.
checkOnce(result) == "idle"

\* repeatCheckUntilInternetWorks after a probe's result: takeWhile lets false
\* through and keeps the 2.5 s timer, true completes the loop.
repeatCheckUntilInternetWorks(result) == IF result THEN "idle" ELSE "running"

\* obs when a check loop starts: switchMap on kickoffOnline, an online event
\* or checkNow.
loopStarted(o, step) ==
  [o EXCEPT !.step = step, !.fails = 0, !.succeeded = FALSE, !.spaced = TRUE,
            !.quiet = TRUE, !.onlineAtFirstFailure = FALSE, !.emitted = << >>,
            !.results = FALSE]

\* obs when a probe of the loop completes.
probeCompleted(o, step) ==
  [o EXCEPT !.step = step, !.results = TRUE,
            !.spaced = @ /\ (throttled = "none" \/ ~o.results)]

\* ------------------------------------------- executeJavaScript of a webview
\* The calls of executeJavaScript one SlackWebViewContext takes.
MaxCalls == 3

\* The 10 seconds of timeout(10 * 1000), in steps of the clock.
TimeoutTicks == 2

\* uuid.v4(): the correlation id of the call made after `made` calls.
uuid(made) == made + 1

\* No message: the call was settled by the timeout, or not yet.
NoMessage == 0

\* What the evaluated code does in the page: it gives a value, it gives
\* undefined or null, it throws.
EvalKinds == {"value", "null", "throw"}

\* window.rendererEvalAsync of the page: the message it sends to the host
\* for the call `id`.  result: data.result is a JSON text (truthy), not null;
\* error: data.error is set.
rendererEvalAsync(id, kind) ==
  [channel |-> "eval-async", id |-> id,
   result |-> kind = "value", error |-> kind = "throw"]

\* A filter that does not compare the correlation ids.
whereAnyId(x, msg) ==
  /\ x.channel = "eval-async"
  /\ x.result \/ x.error

\* The filter of executeJavaScript on webViewIpc, for the call `msg`.
where(x, msg) ==
  /\ x.channel = "eval-async"
  /\ x.result \/ x.error
  /\ x.id = msg.id

\* The flatMap of executeJavaScript: what the response becomes.
flatMap(x) ==
  IF x.error THEN "throw"
  ELSE IF ~x.result THEN "null"
  ELSE "value"

\* timeout(10 * 1000) when no item has come in time.
timeout == "throw"

\* catch(() => rx.Observable.return(null)), which follows flatMap and timeout.
catch(outcome) == IF outcome = "throw" THEN "null" ELSE outcome

\* A pipeline without take(1): every outcome settles the call anew.
takeEvery(c, outcome, by) ==
  [c EXCEPT !.state = IF outcome = "throw" THEN "error" ELSE outcome,
            !.by = by, !.settles = @ + 1]

\* take(1) and publishLast(): the first outcome settles the call, by the
\* message `by` (NoMessage for the timer); state "error" is onError.
take1(c, outcome, by) ==
  IF c.state # "pending" THEN c
  ELSE [c EXCEPT !.state = IF outcome = "throw" THEN "error" ELSE outcome,
                 !.by = by, !.settles = @ + 1]

\* A call as executeJavaScript leaves it: connected, its code sent to the page.
\* age: the ticks since then while it is pending; evaluated: what the page has
\* made of its code ("no" before it has run it); late: a message with its id
\* was delivered after it had been settled.
newCall(id) ==
  [id |-> id, state |-> "pending", age |-> 0, evaluated |-> "no",
   by |-> NoMessage, settles |-> 0, late |-> FALSE]

\* The context has been constructed: no call has been made.
EvalInit ==
  /\ calls = << >>
  /\ ipc = {}

\* ------------------------------------------------ loading of the webviews
\* The preferences of allPrefs that may have an item in localStorage.
MaxPrefs == 2

\* The contexts constructed so far in this window, by webViewId.
Contexts == 1 .. (webViewId - 1)

\* dispose() has been called on the context: fetchTeam appends every context
\* to the host and only dispose() removes it.
Disposed(w) == w \in Contexts /\ w \notin attached

\* A context as fetchTeam leaves it.  finished: getSingleFinishedLoadObservable
\* has fired (did-finish-load, or the 3 seconds of the interval); tsReady:
\* tsReadySubj has the 'didFinishLoading' message of the page; loaded: the state
\* of team.webViewLoaded, "attaching" until attachToDom fires, "syncing" while
\* syncPreferencesForTeam runs, then "value" when publishLast has handed a
\* value on or "empty" when it has completed without one; left: the
\* preferences whose executeJavaScript has not completed; fired: the values
\* webViewLoaded has handed to a subscriber; timedOut: the 32 seconds of
\* setUpLoadTimeout have run out.
newContext ==
  [finished |-> FALSE, tsReady |-> FALSE, loaded |-> "attaching", left |-> 0,
   fired |-> 0, timedOut |-> FALSE]

\* crashLog and lateLog before a webview has raised anything.
NoCrash ==
  [w |-> NoWebView, type |-> "none", primary |-> FALSE, handled |-> FALSE,
   reload |-> FALSE]

NoLate == [w |-> NoWebView, channel |-> "none", disposed |-> FALSE]

\* No context has been constructed, no preference is stored.
ViewInit ==
  /\ views = [w \in 1 .. MaxWebViews |-> newContext]
  /\ prefs = 0
  /\ devMode = FALSE
  /\ crashLog = NoCrash
  /\ lateLog = NoLate

\* An observable that fires at once, whatever the page has sent.
getWebAppApiReadyNow(v) == TRUE

\* getWebAppApiReadyObservable(): tsReadySubj, which fires once the page has
\* sent 'didFinishLoading'.
getWebAppApiReadyObservable(v) == v.tsReady

\* attachToDom() fires: flatMap subscribes to syncPreferencesForTeam(team),
\* which completes at once when no preference is stored and else runs
\* executeJavaScript(command, team) for each stored one.
syncPreferencesForTeam(v, stored) ==
  IF stored = 0 THEN [v EXCEPT !.finished = TRUE, !.loaded = "empty"]
  ELSE [v EXCEPT !.finished = TRUE, !.loaded = "syncing", !.left = stored]

\* executeJavaScript(command, team) of a preference completes: the last of
\* them completes webViewLoaded, and publishLast hands its value on.
preferenceSynced(v) ==
  IF v.left > 1 THEN [v EXCEPT !.left = @ - 1]
  ELSE [v EXCEPT !.left = 0, !.loaded = "value", !.fired = @ + 1]

\* The crash types of setUpErrorHandling; 'plugin-crashed' gives
\* `Plugin ${name} ${version}`.
PluginCrashes == {"Plugin flash 18"}
CrashTypes == {"Renderer", "GPU"} \cup PluginCrashes

\* type.startsWith('Plugin')
startsWithPlugin(type) == type \in PluginCrashes

\* handleWebViewCrash(type, teamUrl): 'window:reload' is sent to the browser
\* (for tinyspeck.slack.com once the dialog has been answered).
handleWebViewCrash(type) == ~startsWithPlugin(type)

\* The `crashed` observable of the context w hands `type` to its subscribers:
\* makeTeamPrimary subscribes for the team it makes primary, and the
\* subscription lives in primaryTeamDisp.  primary: w is the webview of the
\* primary team; handled: handleWebViewCrash has run; reload: it has sent
\* 'window:reload'.
crashed(w, type) ==
  [w |-> w, type |-> type,
   primary |-> primaryTeam # NoTeam /\ primaryTeam.webView = w,
   handled |-> primaryTeamDisp = w,
   reload |-> primaryTeamDisp = w /\ handleWebViewCrash(type)]

\* What a context has subscribed and not disposed of: dispose() disposes of
\* currentAttach only; the connection of forwardTeamMessages (its disposable
\* is dropped by fetchTeam), the subscription of fetchTeam to requestedClose
\* and the connection of tsReadySubj stay.
subscriptions(w) ==
  (IF w \in attached THEN {"currentAttach"} ELSE {})
    \cup {"forwardTeamMessages", "requestedClose"}
    \cup (IF views[w].tsReady THEN {} ELSE {"tsReady"})

\* ------------------------------------------------------------ the badges
\* The counts a page reports with setBadgeCount.
BadgeCounts ==
  {[unreadHighlights |-> 0, unread |-> 0], [unreadHighlights |-> 2, unread |-> 5]}

\* The statuses a page reports with setConnectionStatus.
ConnectionStatuses == {"online", "connecting", "offline"}

\* A property that is undefined, and the NaN a sum with it gives.
Undefined == -1
NaN == -2

\* team.badgeInfo that is undefined.
NoBadgeInfo ==
  [set |-> FALSE, unreadHighlights |-> Undefined, unread |-> Undefined,
   connectionStatus |-> Undefined]

\* The argument of 'setBadgeCount': {unreadHighlights, unread}.
setBadgeCountArgs(unreadHighlights, unread) ==
  [set |-> TRUE, unreadHighlights |-> unreadHighlights, unread |-> unread,
   connectionStatus |-> Undefined]

\* sortableConnectionStatus[name] || 0
sortableConnectionStatus(name) ==
  CASE name = "online" -> 0
    [] name = "connecting" -> 1
    [] name = "offline" -> 2
    [] OTHER -> 0

\* sortableConnectionStatusToName[n] || 'online'
sortableConnectionStatusToName(n) ==
  CASE n = 0 -> "online"
    [] n = 1 -> "connecting"
    [] n = 2 -> "offline"
    [] OTHER -> "online"

\* a += b of JavaScript numbers, b possibly undefined.
plus(a, b) == IF a = NaN \/ b = Undefined \/ b = NaN THEN NaN ELSE a + b

\* thisStatus of the loop of updateBadgeInfoForTeam.
thisStatus(info) ==
  IF ~info.set \/ info.connectionStatus = Undefined \/ info.connectionStatus = 0
  THEN -1 ELSE info.connectionStatus

\* The loop of updateBadgeInfoForTeam over this.teamList from the i-th team,
\* acc holding unread, unreadHighlights and connectionStatus.
RECURSIVE badgeLoop(_, _, _, _)
badgeLoop(list, infos, i, acc) ==
  IF i > Len(list) THEN acc
  ELSE LET info == infos[list[i].team_id]
       IN badgeLoop(list, infos, i + 1,
            [unread |-> IF info.set THEN plus(acc.unread, info.unread) ELSE acc.unread,
             unreadHighlights |-> IF info.set
                                  THEN plus(acc.unreadHighlights, info.unreadHighlights)
                                  ELSE acc.unreadHighlights,
             connectionStatus |-> Max({acc.connectionStatus, thisStatus(info)})])

\* What setGlobalBadgeCount is handed after the loop.
setGlobalBadgeCount(list, infos) ==
  LET acc == badgeLoop(list, infos, 1,
                       [unread |-> 0, unreadHighlights |-> 0, connectionStatus |-> -1])
  IN [unreadHighlights |-> acc.unreadHighlights, unread |-> acc.unread,
      connectionStatus |-> sortableConnectionStatusToName(acc.connectionStatus)]

\* updateBadgeInfoForTeam(teamToUpdate, badgeInfo) of a message (updateAll is
\* false), on the controller c with the badge infos `infos` and the global
\* badge `global`: badgeInfo replaces team.badgeInfo when it is given, the
\* loop runs, setSelectionStatus reads this.primaryTeam.team_id, which throws
\* a TypeError when no team is primary, and then the badge manager is handed
\* the result.
updateBadgeInfoForTeam(c, infos, global, teamId, info) ==
  LET i == findIndex(c.teamList, teamId)
      infos1 == IF info.set THEN [infos EXCEPT ![teamId] = info] ELSE infos
  IN IF i = 0
     THEN [infos |-> infos, global |-> global, delivered |-> FALSE, threw |-> FALSE]
     ELSE IF c.primaryTeam = NoTeam
     THEN [infos |-> infos1, global |-> global, delivered |-> FALSE, threw |-> TRUE]
     ELSE [infos |-> infos1, global |-> setGlobalBadgeCount(c.teamList, infos1),
           delivered |-> TRUE, threw |-> FALSE]

\* teamFromWebViewId(webViewId): the index of the team in the list, 0 for none.
teamFromWebViewId(list, w) ==
  LET found == {i \in DOMAIN list : list[i].webView # NoWebView /\ list[i].webView = w}
  IN IF found = {} THEN 0 ELSE Min(found)

\* The global badge before setGlobalBadgeCount has been called.
NoGlobalBadge ==
  [unreadHighlights |-> 0, unread |-> 0, connectionStatus |-> "none"]

\* badgeLog when no badge message was the last thing handled.  registry: the
\* webview of the message is that of a team of the list; primary: a team was
\* primary when it came; delivered: setGlobalBadgeCount was called for it.
NoBadgeLog ==
  [channel |-> "none", registry |-> FALSE, primary |-> FALSE,
   delivered |-> FALSE, threw |-> FALSE]

\* No team has a badgeInfo and setGlobalBadgeCount has not been called.
BadgeInit ==
  /\ badgeInfo = [t \in TeamIds \cup {SIGNIN} |-> NoBadgeInfo]
  /\ reported = [t \in TeamIds \cup {SIGNIN} |-> "online"]
  /\ globalBadge = NoGlobalBadge
  /\ badgeLog = NoBadgeLog

\* ------------------------------------------- the team menu and the focus
\* getTrimmedTeamList(maxItems=9): at most this many teams go to the menu.
maxItems == 9

\* SlackAppMenu.updateTeamItems(teamList) in the browser process, by the number
\* of team items of the Window menu: an empty list, or one with a team whose
\* team_name is missing or shorter than three characters (the '__signin__'
\* stub has none; "a" and "b" stand for real names), leaves the menu as it is.
updateTeamItems(items, list) ==
  IF Len(list) = 0 THEN items
  ELSE IF \E i \in DOMAIN list : list[i].team_name = "none" THEN items
  ELSE Min({Len(list), maxItems})

\* presentAvailableTeams has reached updateTeamMenu() in the handler that led
\* to c.
updatesTeamMenu(c) ==
  /\ c.didMergeTeamList /\ ~c.threw /\ ~c.ignored
  /\ Len(c.teamList) > 0 /\ ~c.loggedOffTheLastUser

\* team.webView of the record the list holds for team_id.
webViewOf(list, team_id) ==
  LET i == findIndex(list, team_id)
  IN IF i = 0 THEN NoWebView ELSE list[i].webView

\* The subscription to 'windowFocus' that makeTeamPrimary(team) has added to
\* `ret` when `team.webView.crashed` throws: `ret` is dropped, nothing disposes
\* of it.  inList: the record it captured is the one the list holds; webView:
\* the webView of the captured record once it has left the list.
focusSubscription(team) ==
  [team_id |-> team.team_id, inList |-> TRUE, webView |-> NoWebView]

\* mergeTeamList with a list replaces every record of the team list by the
\* incoming one (or drops it): a captured record keeps the webView it had.
replacedRecords(subs, list) ==
  {[s EXCEPT !.inList = FALSE,
             !.webView = IF s.inList THEN webViewOf(list, s.team_id) ELSE @] : s \in subs}

\* focused before any 'windowFocus' event.
NoFocus == [fired |-> FALSE, targets |-> {}, threw |-> FALSE]

\* A 'windowFocus' event: every live subscription runs team.webView.focus() on
\* the record it captured; disp is the webview of the team whose subscription
\* primaryTeamDisp holds.
windowFocus(disp, subs, list) ==
  LET ts == {IF s.inList THEN webViewOf(list, s.team_id) ELSE s.webView : s \in subs}
  IN [fired |-> TRUE,
      targets |-> (ts \ {NoWebView}) \cup (IF disp # NoWebView THEN {disp} ELSE {}),
      threw |-> NoWebView \in ts]

\* The handler of 'displayTeam': the team is looked up by the id of its user.
displayTeam(c, id) ==
  LET hits == {i \in DOMAIN c.teamList : c.teamList[i].id = id}
  IN IF hits = {} THEN c ELSE makeTeamPrimary(c, c.teamList[Min(hits)])

\* The handler of 'window:select-team': this.teamList[index], undefined when
\* the list has no such index.
selectTeam(c, index) ==
  makeTeamPrimary(c, IF index + 1 \in DOMAIN c.teamList
                     THEN c.teamList[index + 1] ELSE NoTeam)

\* handleDeepLink of a 'slack:' URL that names a team: `team.team_id !==
\* this.primaryTeam.team_id` is a TypeError while no team is primary.
handleDeepLink(c, team_id) ==
  IF Len(c.teamList) = 0 THEN c
  ELSE IF c.primaryTeam = NoTeam THEN [c EXCEPT !.threw = TRUE]
  ELSE LET i == findIndex(c.teamList, team_id)
       IN IF i # 0 /\ team_id # c.primaryTeam.team_id
          THEN makeTeamPrimary(c, c.teamList[i]) ELSE c

\* The browser's menu has no team item, no subscription is left over.
MenuInit ==
  /\ menuItems = 0
  /\ menuPending = FALSE
  /\ focusFollow = {}
  /\ focused = NoFocus

\* ------------------------------------------------------- the downloads
\* The tokens of the downloads (uuid.v4() of DownloadIntegration.startDownload).
Tokens == {"k1", "k2"}

\* How many startDownload calls of one token await at a time, and how many
\* requests are made in all.
MaxStarting == 2
MaxRequests == 3

\* this.downloadsByToken[token] that is undefined.
NoRequest == 0
NoMetadata == [state |-> "none", request |-> NoRequest]

\* A request that has not been made.
NoXhr == [token |-> "none", status |-> "none"]

\* The requests of a token that are in flight.
InFlight(t) ==
  {r \in 1 .. MaxRequests : requests[r].token = t /\ requests[r].status = "open"}

\* How many requests requestFactory has made.
made == Cardinality({r \in 1 .. MaxRequests : requests[r].status # "none"})

\* startDownload(url, token) up to its `await`: nothing is looked up, the call
\* waits for getUniqueFileForUrl.
startDownloadAwaits(s, token) == [s EXCEPT ![token] = @ + 1]

\* retryDownload(token): refused while the state is in_progress or completed;
\* a token without metadata has no href, which startDownload refuses.
retryDownload(meta, s, token) ==
  IF meta[token].state \in {"in_progress", "completed", "none"}
  THEN s
  ELSE startDownloadAwaits(s, token)

\* startDownload(url, token) after its `await`: new metadata with the state
\* in_progress and a new request r.
startDownloadResumes(meta, token, r) ==
  [meta EXCEPT ![token] = [state |-> "in_progress", request |-> r]]

\* onDownloadComplete / onDownloadErrorOrCanceled: the state of the metadata
\* the token has now.
onDownloadEnd(meta, token, state) ==
  [meta EXCEPT ![token].state = state]

\* The constructor of DownloadManager on a storage without downloads.
DownloadInit ==
  /\ downloadsByToken = [t \in Tokens |-> NoMetadata]
  /\ starting = [t \in Tokens |-> 0]
  /\ requests = [r \in 1 .. MaxRequests |-> NoXhr]
  /\ retriedFailed = FALSE

\* ------------------------------------------------------- the sign-outs
\* What TS.refreshTeams() makes the page of a signed-in team send as 'update':
\* the teams that are signed in, i.e. the teams of the list whose page has not
\* signed out.
RECURSIVE signedInTeams(_, _, _)
signedInTeams(list, out, i) ==
  IF i > Len(list) THEN << >>
  ELSE (IF list[i].webView \in out THEN << >>
        ELSE << Team(list[i].team_id, list[i].team_name, "none") >>)
       \o signedInTeams(list, out, i + 1)

\* No page has signed out, no page has been asked for the teams.
SignOutInit ==
  /\ signedOut = {}
  /\ refreshAsked = {}
  /\ updates = {}

\* The webview contexts, the badges and the menu when the controller is
\* constructed.
SideInit ==
  /\ EvalInit
  /\ ViewInit
  /\ BadgeInit
  /\ MenuInit
  /\ DownloadInit
  /\ SignOutInit

\* ----------------------------------------------------------------- actions
\* What `last` keeps of a handler: its name and argument (the team list of
\* presentAvailableTeams, the team id of a click), the list, flag, primary team
\* and webviews it started from, and the effects collected in c.  repeatClick:
\* the handler before it was a click on the same team.  repeat: the
\* handler before it was presentAvailableTeams with the same list; seenList: a
\* list has been received since the controller was constructed; first: this
\* call received the first one.
Summary(c, op, isNull, incoming) ==
  [op |-> op, isNull |-> isNull, incoming |-> incoming,
   before |-> teamList, flagBefore |-> haveMergedTeamListOnce,
   primaryBefore |-> primaryTeam, dispBefore |-> primaryTeamDisp,
   attachedBefore |-> attached, visibleBefore |-> visible,
   repeatClick |-> /\ op = "clicked" /\ last.op = "clicked"
                   /\ incoming = last.incoming,
   repeat |-> /\ op = "present" /\ last.op = "present"
              /\ ~isNull /\ ~last.isNull /\ incoming = last.incoming,
   seenList |-> IF op = "construct" THEN FALSE
                ELSE last.seenList \/ (op = "present" /\ ~isNull),
   first |-> op = "present" /\ ~isNull /\ ~last.seenList,
   newTeams |-> c.newTeams, toDispose |-> c.toDispose, disposed |-> c.disposed,
   didMergeTeamList |-> c.didMergeTeamList, refreshTeams |-> c.refreshTeams,
   teamChanged |-> c.teamChanged, threw |-> c.threw,
   loggedOffTheLastUser |-> c.loggedOffTheLastUser, ignored |-> c.ignored]

Commit(c, op, isNull, incoming) ==
  \E v \in {c} :
    /\ v.webViewId <= MaxWebViews + 1
    /\ teamList' = v.teamList
    /\ primaryTeam' = v.primaryTeam
    /\ primaryIsListObject' = v.primaryIsListObject
    /\ primaryTeamDisp' = v.primaryTeamDisp
    /\ haveMergedTeamListOnce' = v.haveMergedTeamListOnce
    /\ isAuthInvalidated' = v.isAuthInvalidated
    /\ loadingScreen' = v.loadingScreen
    /\ loginDialog' = v.loginDialog
    /\ webViewId' = v.webViewId
    /\ attached' = v.attached
    /\ visible' = v.visible
    /\ localStorage' = v.localStorage
    /\ selector' = v.selector
    /\ last' = Summary(v, op, isNull, incoming)

\* `last` when the controller has been constructed and no handler has run.
NoLast ==
  [op |-> "construct", isNull |-> TRUE, incoming |-> << >>,
   before |-> << >>, flagBefore |-> FALSE, primaryBefore |-> NoTeam,
   dispBefore |-> NoWebView, attachedBefore |-> {},
   visibleBefore |-> {}, repeatClick |-> FALSE,
   repeat |-> FALSE, seenList |-> FALSE, first |-> FALSE,
   newTeams |-> << >>, toDispose |-> {}, disposed |-> {},
   didMergeTeamList |-> FALSE, refreshTeams |-> {},
   teamChanged |-> 0, threw |-> FALSE,
   loggedOffTheLastUser |-> FALSE, ignored |-> FALSE]

\* obs before statusObservable is subscribed to.  step: the last step of the
\* network status; of the check loop started last: fails, the probes that have
\* failed (counted up to MaxFails), succeeded, a probe has succeeded, results,
\* a probe has completed, spaced, no probe has completed while throttle held
\* the result of the one before, quiet, no offline event since the loop
\* started, onlineAtFirstFailure, _currentStatus was true when the first probe
\* failed, emitted, the values emitted since then (up to MaxEmitted);
\* successSince: a probe has succeeded since the subscription or since false
\* was emitted last; of the value emitted last: unverified, it was true and no
\* probe had succeeded, fresh, it was true and no probe of the loop had completed.
NoObs ==
  [step |-> "none", fails |-> 0, succeeded |-> FALSE, spaced |-> TRUE,
   quiet |-> TRUE, onlineAtFirstFailure |-> FALSE, emitted |-> << >>,
   successSince |-> FALSE, results |-> FALSE, unverified |-> FALSE, fresh |-> FALSE]

NetUnsubscribed ==
  /\ browserOnline = TRUE
  /\ checking = "unsubscribed"
  /\ throttled = "none"
  /\ distinctPrev = "none"
  /\ currentStatus = "undefined"
  /\ netReason = "undefined"
  /\ obs = NoObs

Init ==
  LET c == constructed(<< >>)
  IN /\ teamList = c.teamList
     /\ primaryTeam = c.primaryTeam
     /\ primaryIsListObject = c.primaryIsListObject
     /\ primaryTeamDisp = c.primaryTeamDisp
     /\ haveMergedTeamListOnce = c.haveMergedTeamListOnce
     /\ isAuthInvalidated = c.isAuthInvalidated
     /\ loadingScreen = c.loadingScreen
     /\ loginDialog = c.loginDialog
     /\ webViewId = c.webViewId
     /\ attached = c.attached
     /\ visible = c.visible
     /\ localStorage = c.localStorage
     /\ selector = c.selector
     /\ NetUnsubscribed
     /\ last = NoLast
     /\ SideInit

\* shouldUpdate, from an 'update' message of a live team webview.
Update ==
  \E updatedTeamList \in RealLists \cup DummyLists :
    /\ attached # {}
    /\ Commit(presentAvailableTeams(closeLoginDialog(This), FALSE, updatedTeamList),
              "present", FALSE, updatedTeamList)
    /\ UNCHANGED <<netVars, sideVars>>

\* shouldUpdate, from the login dialog's webview asking to be closed.
SigninRequestedClose ==
  /\ loginDialog.open
  /\ Commit(presentAvailableTeams(closeLoginDialog(This), FALSE, signinRequestedCloseInfo),
            "present", FALSE, signinRequestedCloseInfo)
  /\ UNCHANGED <<netVars, sideVars>>

\* team.webView.requestedClose, subscribed in fetchTeam and never unsubscribed.
RequestedClose ==
  /\ \E w \in attached :
       IF isAuthInvalidated
       THEN Commit([This EXCEPT !.isAuthInvalidated = FALSE], "reloadRequested", TRUE, << >>)
       ELSE Commit(presentAvailableTeams(This, FALSE, signinFakeTeamInfo),
                   "present", FALSE, signinFakeTeamInfo)
  /\ UNCHANGED <<netVars, sideVars>>

\* 'invalidateAuth' message of a live team webview.
InvalidateAuth ==
  /\ attached # {}
  /\ Commit([This EXCEPT !.isAuthInvalidated = TRUE], "invalidateAuth", TRUE, << >>)
  /\ UNCHANGED <<netVars, sideVars>>

\* signInTeam / window:signin / the add-team button.
SignIn ==
  /\ Commit(showLoginDialog(This, TRUE), "signin", TRUE, << >>)
  /\ UNCHANGED <<netVars, sideVars>>

\* The user dismisses a cancelable login dialog.
LoginDialogCancel ==
  /\ loginDialog.open /\ loginDialog.allowCancel
  /\ Commit(closeLoginDialog(This), "loginCancel", TRUE, << >>)
  /\ UNCHANGED <<netVars, sideVars>>

\* statusObservable emits true: presentAvailableTeams().
StatusOnline ==
  /\ Commit(presentAvailableTeams(This, TRUE, << >>), "present", TRUE, << >>)
  /\ UNCHANGED <<netVars, sideVars>>

\* statusObservable emits false: the primary team is cleared and the
\* "slack is down" or the "offline" message shown.
StatusOffline ==
  /\ \E isOnline \in BOOLEAN :
       Commit(wentOffline(This, isOnline, reasonMethod), "offline", TRUE, << >>)
  /\ UNCHANGED <<netVars, sideVars>>

\* teamSelector.clicked
TeamClicked ==
  \E team_id \in Range(selector) :
    LET i == findIndex(teamList, team_id)
    IN /\ Commit(IF i # 0 THEN makeTeamPrimary(This, teamList[i]) ELSE This,
                 "clicked", TRUE, << team_id >>)
       /\ UNCHANGED <<netVars, sideVars>>

\* teamSelector.sorted: the items of the selector in their new order.
Sorted ==
  /\ Len(selector) >= 2
  /\ \E p \in Orders(Len(selector)) :
       Commit(sorted(This, [i \in DOMAIN selector |-> selector[p[i]]]),
              "sorted", TRUE, << >>)
  /\ UNCHANGED <<netVars, sideVars>>

\* The window is reloaded: a new renderer process constructs the controller.
Reload ==
  /\ Commit(constructed(localStorage), "construct", TRUE, << >>)
  /\ UNCHANGED <<netVars, sideVars>>

Next ==
  \/ Update
  \/ SigninRequestedClose
  \/ RequestedClose
  \/ InvalidateAuth
  \/ SignIn
  \/ LoginDialogCancel
  \/ StatusOnline
  \/ StatusOffline
  \/ TeamClicked
  \/ Sorted
  \/ Reload

Spec == Init /\ [][Next]_vars

\* ------------------------------------------- actions of the network status
\* The subscriber is handed the value `online`: _currentStatus is set and the
\* handler of setupNetworkStatusStateMachine runs.
Emit(online, o) ==
  /\ currentStatus' = Str(online)
  /\ Commit(statusChanged(This, online, browserOnline, reasonMethod),
            IF online THEN "present" ELSE "offline", TRUE, << >>)
  /\ obs' = [o EXCEPT
               !.emitted = IF o.fails > 0 /\ Len(@) < MaxEmitted
                           THEN Append(@, Str(online)) ELSE @,
               !.successSince = @ /\ online,
               !.unverified = online /\ ~o.successSince,
               !.fresh = online /\ ~o.results]

\* attachToDom subscribes to statusObservable: startWith(isOnline()) is emitted
\* at once, then kickoffOnline starts a check loop, whose first value is
\* isOnline(), or kickoffOffline sends false.
Subscribe ==
  /\ checking = "unsubscribed"
  /\ Emit(browserOnline, [obs EXCEPT !.step = "emit"])
  /\ checking' = IF browserOnline THEN "running" ELSE "idle"
  /\ throttled' = throttle(throttled, Str(browserOnline))
  /\ UNCHANGED <<browserOnline, distinctPrev, netReason>>
  /\ UNCHANGED sideVars

\* The window's 'online' event: a new check loop replaces the current one.
OnlineEvent ==
  /\ checking # "unsubscribed" /\ ~browserOnline
  /\ browserOnline' = TRUE
  /\ checking' = "running"
  /\ throttled' = throttle(throttled, "true")
  /\ obs' = loopStarted(obs, "online")
  /\ UNCHANGED <<ctlVars, distinctPrev, currentStatus, netReason>>
  /\ UNCHANGED sideVars

\* The window's 'offline' event.
OfflineEvent ==
  /\ checking # "unsubscribed" /\ browserOnline
  /\ browserOnline' = FALSE
  /\ throttled' = throttle(throttled, "false")
  /\ obs' = [obs EXCEPT !.step = "offline", !.quiet = FALSE]
  /\ UNCHANGED <<ctlVars, checking, distinctPrev, currentStatus, netReason>>
  /\ UNCHANGED sideVars

\* checkNow: "Try Again" is clicked on the offline or the slack-down message.
CheckNow ==
  /\ checking # "unsubscribed"
  /\ loadingScreen \in {"offline", "slackDown"}
  /\ checking' = "running"
  /\ throttled' = throttle(throttled, Str(browserOnline))
  /\ obs' = loopStarted(obs, "checkNow")
  /\ UNCHANGED <<ctlVars, browserOnline, distinctPrev, currentStatus, netReason>>
  /\ UNCHANGED sideVars

\* A probe of the loop fails: checkInternetConnection has set the reason
\* ("offline", "slackDown") or the request itself has failed ("error"); the
\* loop yields false and goes on.
ProbeFails ==
  /\ checking = "running"
  /\ checking' = repeatCheckUntilInternetWorks(FALSE)
  /\ \E why \in {"offline", "slackDown", "error"} :
       /\ why = "slackDown" => browserOnline
       /\ netReason' = IF why = "error" THEN netReason ELSE why
  /\ throttled' = throttle(throttled, "false")
  /\ obs' = [probeCompleted(obs, "probeFailed") EXCEPT
               !.fails = IF @ < MaxFails THEN @ + 1 ELSE @,
               !.onlineAtFirstFailure =
                  IF obs.fails = 0 THEN currentStatus = "true" ELSE @]
  /\ UNCHANGED <<ctlVars, browserOnline, distinctPrev, currentStatus>>
  /\ UNCHANGED sideVars

\* A probe of the loop succeeds: the loop yields true and completes.
ProbeSucceeds ==
  /\ checking = "running" /\ browserOnline
  /\ checking' = repeatCheckUntilInternetWorks(TRUE)
  /\ throttled' = throttle(throttled, "true")
  /\ obs' = [probeCompleted(obs, "probeSucceeded") EXCEPT
               !.succeeded = TRUE, !.successSince = TRUE]
  /\ UNCHANGED <<ctlVars, browserOnline, distinctPrev, currentStatus, netReason>>
  /\ UNCHANGED sideVars

\* 600 ms have passed since throttle received the value it holds: it goes to
\* distinctUntilChanged, and on if it differs from the one before.
ThrottleFires ==
  /\ throttled # "none"
  /\ throttled' = "none"
  /\ distinctPrev' = throttled
  /\ IF distinctUntilChanged(distinctPrev, throttled)
     THEN Emit(throttled = "true", [obs EXCEPT !.step = "emit"])
     ELSE /\ obs' = [obs EXCEPT !.step = "suppressed"]
          /\ UNCHANGED <<ctlVars, currentStatus>>
  /\ UNCHANGED <<browserOnline, checking, netReason>>
  /\ UNCHANGED sideVars

\* The window is reloaded while the network status runs: the new renderer
\* process has a new controller and a new NetworkStatus.
WindowReload ==
  /\ checking # "unsubscribed"
  /\ Commit(constructed(localStorage), "construct", TRUE, << >>)
  /\ checking' = "unsubscribed"
  /\ throttled' = "none"
  /\ distinctPrev' = "none"
  /\ currentStatus' = "undefined"
  /\ netReason' = "undefined"
  /\ obs' = NoObs
  /\ UNCHANGED browserOnline
  /\ UNCHANGED sideVars

\* The handlers of the controller that run beside the subscriber of
\* statusObservable here: the login dialog's webview asks to be closed, the
\* user clicks a team.
Handler ==
  /\ checking # "unsubscribed"
  /\ \/ SigninRequestedClose
     \/ TeamClicked

\* Team lists a previous run of the window has left in local storage.
StoredLists == {l \in RealLists : \A i \in DOMAIN l : l[i].team_name = "a"}

\* The window starts on a stored team list, the browser online or offline.
NetInit ==
  \E stored \in StoredLists :
    LET c == constructed(stored)
    IN /\ teamList = c.teamList
       /\ primaryTeam = c.primaryTeam
       /\ primaryIsListObject = c.primaryIsListObject
       /\ primaryTeamDisp = c.primaryTeamDisp
       /\ haveMergedTeamListOnce = c.haveMergedTeamListOnce
       /\ isAuthInvalidated = c.isAuthInvalidated
       /\ loadingScreen = c.loadingScreen
       /\ loginDialog = c.loginDialog
       /\ webViewId = c.webViewId
       /\ attached = c.attached
       /\ visible = c.visible
       /\ localStorage = c.localStorage
       /\ selector = c.selector
       /\ last = NoLast
       /\ browserOnline \in BOOLEAN
       /\ checking = "unsubscribed"
       /\ throttled = "none"
       /\ distinctPrev = "none"
       /\ currentStatus = "undefined"
       /\ netReason = "undefined"
       /\ obs = NoObs
       /\ SideInit

NetNext ==
  \/ Subscribe
  \/ OnlineEvent
  \/ OfflineEvent
  \/ CheckNow
  \/ ProbeFails
  \/ ProbeSucceeds
  \/ ThrottleFires
  \/ WindowReload
  \/ Handler

NetSpec == NetInit /\ [][NetNext]_vars

\* The value throttle holds leaves it: its timer has run out (ThrottleFires)
\* or the window has gone (WindowReload).
ThrottleReleases == throttled # "none" /\ throttled' = "none"

\* The window that has loaded subscribes to the status (Subscribe).
Subscribes == checking = "unsubscribed" /\ checking' \in {"running", "idle"}

\* The scheduler runs the 600 ms timer of throttle, so that a value is not held
\* forever, and attachToDom of a window that has loaded.
FairNetSpec ==
  NetSpec /\ WF_throttled(ThrottleReleases) /\ WF_checking(Subscribes)

\* ------------------------------------------- actions of executeJavaScript
\* executeJavaScript(code) on the context.
ExecuteJavaScript ==
  /\ Len(calls) < MaxCalls
  /\ calls' = Append(calls, newCall(uuid(Len(calls))))
  /\ UNCHANGED <<ctlVars, netVars, menuVars, downloadVars, signVars, viewVars, badgeVars, ipc>>

\* The page runs window.rendererEvalAsync for a call and sends its message.
PageEvaluates ==
  /\ \E i \in DOMAIN calls, kind \in EvalKinds :
       /\ calls[i].evaluated = "no"
       /\ calls' = [calls EXCEPT ![i].evaluated = kind]
       /\ ipc' = ipc \cup {rendererEvalAsync(calls[i].id, kind)}
  /\ UNCHANGED <<ctlVars, netVars, menuVars, downloadVars, signVars, viewVars, badgeVars>>

\* webViewIpc delivers a message of the page: the pipeline of every call sees it.
Deliver ==
  /\ \E x \in ipc :
       /\ ipc' = ipc \ {x}
       /\ calls' = [i \in DOMAIN calls |->
                      IF where(x, calls[i])
                      THEN [take1(calls[i], catch(flatMap(x)), x.id) EXCEPT
                              !.late = @ \/ (calls[i].state # "pending" /\ x.id = calls[i].id)]
                      ELSE calls[i]]
  /\ UNCHANGED <<ctlVars, netVars, menuVars, downloadVars, signVars, viewVars, badgeVars>>

\* The clock advances; the timer of a call that has been pending for
\* TimeoutTicks runs before it advances further.
Tick ==
  /\ \E i \in DOMAIN calls : calls[i].state = "pending"
  /\ \A i \in DOMAIN calls : calls[i].state = "pending" => calls[i].age < TimeoutTicks
  /\ calls' = [i \in DOMAIN calls |->
                 IF calls[i].state = "pending"
                 THEN [calls[i] EXCEPT !.age = @ + 1] ELSE calls[i]]
  /\ UNCHANGED <<ctlVars, netVars, menuVars, downloadVars, signVars, viewVars, badgeVars, ipc>>

\* The timer of timeout(10 * 1000) of a call runs out.
TimesOut ==
  /\ \E i \in DOMAIN calls :
       /\ calls[i].state = "pending" /\ calls[i].age = TimeoutTicks
       /\ calls' = [calls EXCEPT ![i] = take1(calls[i], catch(timeout), NoMessage)]
  /\ UNCHANGED <<ctlVars, netVars, menuVars, downloadVars, signVars, viewVars, badgeVars, ipc>>

EvalNext ==
  \/ ExecuteJavaScript
  \/ PageEvaluates
  \/ Deliver
  \/ Tick
  \/ TimesOut

EvalSpec == Init /\ [][EvalNext]_vars

\* -------------------------------------------------- actions of the webviews
\* 'did-finish-load' of the webview, or the 3 seconds of the interval:
\* attachToDom fires and webViewLoaded goes on to the preferences.
FinishedLoad ==
  /\ \E w \in Contexts :
       /\ ~views[w].finished
       /\ views' = [views EXCEPT ![w] = syncPreferencesForTeam(views[w], prefs)]
  /\ UNCHANGED <<ctlVars, netVars, menuVars, downloadVars, signVars, evalVars, badgeVars, prefs, devMode, crashLog, lateLog>>

\* The page sends 'didFinishLoading': tsReadySubj fires.
DidFinishLoading ==
  /\ \E w \in attached :
       /\ ~views[w].tsReady
       /\ views' = [views EXCEPT ![w].tsReady = TRUE]
  /\ UNCHANGED <<ctlVars, netVars, menuVars, downloadVars, signVars, evalVars, badgeVars, prefs, devMode, crashLog, lateLog>>

\* The executeJavaScript of a stored preference completes, with the result of
\* the page or the null of its timeout; it has waited for the page to be ready.
PreferenceSynced ==
  /\ \E w \in Contexts :
       /\ views[w].loaded = "syncing"
       /\ getWebAppApiReadyObservable(views[w])
       /\ views' = [views EXCEPT ![w] = preferenceSynced(views[w])]
  /\ UNCHANGED <<ctlVars, netVars, menuVars, downloadVars, signVars, evalVars, badgeVars, prefs, devMode, crashLog, lateLog>>

\* setUpLoadTimeout: 32 seconds have passed since attachToDom and the page is
\* not ready; fireSsbLoadTimeout is sent true and `crashed` hands on
\* 'Load timeout'.  dispose() ends the timer; in devMode there is none.
LoadTimeout ==
  /\ ~devMode
  /\ \E w \in attached :
       /\ ~views[w].tsReady /\ ~views[w].timedOut
       /\ views' = [views EXCEPT ![w].timedOut = TRUE]
       /\ crashLog' = crashed(w, "Load timeout")
  /\ UNCHANGED <<ctlVars, netVars, menuVars, downloadVars, signVars, evalVars, badgeVars, prefs, devMode, lateLog>>

\* 'crashed', 'gpu-crashed' or 'plugin-crashed' of a webview.
Crashed ==
  /\ \E w \in attached, type \in CrashTypes :
       crashLog' = crashed(w, type)
  /\ UNCHANGED <<ctlVars, netVars, menuVars, downloadVars, signVars, evalVars, badgeVars, views, prefs, devMode, lateLog>>

\* 'close' of a webview whose requestedClose is subscribed to: the handler of
\* fetchTeam runs.
Closed ==
  /\ \E w \in Contexts :
       /\ "requestedClose" \in subscriptions(w)
       /\ lateLog' = [w |-> w, channel |-> "close", disposed |-> Disposed(w)]
  /\ IF isAuthInvalidated
     THEN Commit([This EXCEPT !.isAuthInvalidated = FALSE], "reloadRequested", TRUE, << >>)
     ELSE Commit(presentAvailableTeams(This, FALSE, signinFakeTeamInfo),
                 "present", FALSE, signinFakeTeamInfo)
  /\ UNCHANGED <<netVars, menuVars, downloadVars, signVars, evalVars, badgeVars, views, prefs, devMode, crashLog>>

\* An 'invalidateAuth' message of a webview whose messages are forwarded to
\* ssbMessages: the handler of the controller runs.
Forwarded ==
  /\ \E w \in Contexts :
       /\ "forwardTeamMessages" \in subscriptions(w)
       /\ lateLog' = [w |-> w, channel |-> "invalidateAuth", disposed |-> Disposed(w)]
  /\ Commit([This EXCEPT !.isAuthInvalidated = TRUE], "invalidateAuth", TRUE, << >>)
  /\ UNCHANGED <<netVars, menuVars, downloadVars, signVars, evalVars, badgeVars, views, prefs, devMode, crashLog>>

\* shouldUpdate with the list of the teams that are signed in, from a page.
ViewUpdate ==
  /\ attached # {}
  /\ \E updatedTeamList \in StoredLists :
       Commit(presentAvailableTeams(closeLoginDialog(This), FALSE, updatedTeamList),
              "present", FALSE, updatedTeamList)
  /\ UNCHANGED <<netVars, sideVars>>

\* The window is reloaded: the new renderer process has a new controller and
\* no context; localStorage and the load settings stay.
ViewReload ==
  /\ Commit(constructed(localStorage), "construct", TRUE, << >>)
  /\ views' = [w \in 1 .. MaxWebViews |-> newContext]
  /\ crashLog' = NoCrash
  /\ lateLog' = NoLate
  /\ UNCHANGED <<netVars, menuVars, downloadVars, signVars, evalVars, badgeVars, prefs, devMode>>

\* The window has started on the team list `stored`; no context is
\* constructed yet.
Started(stored) ==
  LET c == constructed(stored)
  IN /\ teamList = c.teamList
     /\ primaryTeam = c.primaryTeam
     /\ primaryIsListObject = c.primaryIsListObject
     /\ primaryTeamDisp = c.primaryTeamDisp
     /\ haveMergedTeamListOnce = c.haveMergedTeamListOnce
     /\ isAuthInvalidated = c.isAuthInvalidated
     /\ loadingScreen = c.loadingScreen
     /\ loginDialog = c.loginDialog
     /\ webViewId = c.webViewId
     /\ attached = c.attached
     /\ visible = c.visible
     /\ localStorage = c.localStorage
     /\ selector = c.selector
     /\ last = NoLast
     /\ NetUnsubscribed
     /\ EvalInit
     /\ views = [w \in 1 .. MaxWebViews |-> newContext]
     /\ crashLog = NoCrash
     /\ lateLog = NoLate
     /\ BadgeInit
     /\ MenuInit
     /\ DownloadInit
     /\ SignOutInit

\* The loading of the webviews: the window starts on a stored team list, with
\* some of the preferences stored; the teams are presented when the network
\* status is online, and the user clicks teams.
LoadStart ==
  /\ \E stored \in StoredLists : Started(stored)
  /\ prefs \in 0 .. MaxPrefs
  /\ devMode = FALSE

LoadNext ==
  \/ StatusOnline
  \/ TeamClicked
  \/ FinishedLoad
  \/ DidFinishLoading
  \/ PreferenceSynced

LoadSpec == LoadStart /\ [][LoadNext]_vars

\* The crashes of the webviews: the window starts on a stored team list, in
\* development mode or not; the network status goes online and offline, the
\* user clicks teams, the window is reloaded.
CrashStart ==
  /\ \E stored \in StoredLists : Started(stored)
  /\ prefs = 0
  /\ devMode \in BOOLEAN

CrashNext ==
  \/ StatusOnline
  \/ StatusOffline
  \/ TeamClicked
  \/ DidFinishLoading
  \/ LoadTimeout
  \/ Crashed
  \/ ViewReload

CrashSpec == CrashStart /\ [][CrashNext]_vars

\* The messages and close events of the webviews: the window starts on a
\* stored team list; the pages report the teams that are signed in.
CloseStart ==
  /\ \E stored \in StoredLists : Started(stored)
  /\ prefs = 0
  /\ devMode = FALSE

CloseNext ==
  \/ StatusOnline
  \/ TeamClicked
  \/ ViewUpdate
  \/ Closed
  \/ Forwarded

CloseSpec == CloseStart /\ [][CloseNext]_vars

\* ---------------------------------------------------- actions of the badges
\* makeTeamPrimary has made a team primary in the handler that led to c: it
\* has called updateBadgeInfoForTeam(this.primaryTeam, null, true).
madePrimary(c) == c.teamChanged > 0 /\ c.primaryTeam # NoTeam /\ ~c.threw

\* A handler of the controller that leads to c, and the global badge that
\* makeTeamPrimary recomputes in it.
BadgeHandler(c, op, incoming) ==
  /\ Commit(c, op, TRUE, incoming)
  /\ globalBadge' = IF madePrimary(c) THEN setGlobalBadgeCount(c.teamList, badgeInfo)
                    ELSE globalBadge
  /\ badgeLog' = NoBadgeLog
  /\ UNCHANGED <<netVars, menuVars, downloadVars, signVars, evalVars, viewVars, badgeInfo, reported>>

\* statusObservable emits true.
BadgeStatusOnline ==
  BadgeHandler(presentAvailableTeams(This, TRUE, << >>), "present", << >>)

\* statusObservable emits false.
BadgeStatusOffline ==
  \E isOnline \in BOOLEAN :
    BadgeHandler(wentOffline(This, isOnline, reasonMethod), "offline", << >>)

\* teamSelector.clicked
BadgeTeamClicked ==
  \E team_id \in Range(selector) :
    LET i == findIndex(teamList, team_id)
    IN BadgeHandler(IF i # 0 THEN makeTeamPrimary(This, teamList[i]) ELSE This,
                    "clicked", << team_id >>)

\* What a badge message of the webview w has come to.
badgeHandled(channel, w, r) ==
  [channel |-> channel, registry |-> teamFromWebViewId(teamList, w) # 0,
   primary |-> primaryTeam # NoTeam, delivered |-> r.delivered, threw |-> r.threw]

\* The handler of 'setBadgeCount'.
SetBadgeCount ==
  /\ \E w \in attached, counts \in BadgeCounts :
       LET i == teamFromWebViewId(teamList, w)
       IN IF i = 0
          THEN /\ badgeLog' = [NoBadgeLog EXCEPT !.channel = "setBadgeCount"]
               /\ UNCHANGED <<badgeInfo, globalBadge>>
          ELSE LET r == updateBadgeInfoForTeam(This, badgeInfo, globalBadge,
                          teamList[i].team_id,
                          setBadgeCountArgs(counts.unreadHighlights, counts.unread))
               IN /\ badgeInfo' = r.infos
                  /\ globalBadge' = r.global
                  /\ badgeLog' = badgeHandled("setBadgeCount", w, r)
  /\ UNCHANGED <<ctlVars, netVars, menuVars, downloadVars, signVars, evalVars, viewVars, reported>>

\* The handler of 'setConnectionStatus'.
SetConnectionStatus ==
  /\ \E w \in attached, status \in ConnectionStatuses :
       LET i == teamFromWebViewId(teamList, w)
       IN IF i = 0
          THEN /\ badgeLog' = [NoBadgeLog EXCEPT !.channel = "setConnectionStatus"]
               /\ UNCHANGED <<badgeInfo, globalBadge, reported>>
          ELSE LET t == teamList[i].team_id
                   info == [badgeInfo[t] EXCEPT
                              !.set = TRUE,
                              !.connectionStatus = sortableConnectionStatus(status)]
                   r == updateBadgeInfoForTeam(This, [badgeInfo EXCEPT ![t] = info],
                                               globalBadge, t, info)
               IN /\ badgeInfo' = r.infos
                  /\ globalBadge' = r.global
                  /\ reported' = [reported EXCEPT ![t] = status]
                  /\ badgeLog' = badgeHandled("setConnectionStatus", w, r)
  /\ UNCHANGED <<ctlVars, netVars, menuVars, downloadVars, signVars, evalVars, viewVars>>

\* The badges: the window starts on a stored team list; the network status
\* goes online and offline, the user clicks teams, the pages report counts
\* and statuses.
BadgeStart ==
  /\ \E stored \in StoredLists : Started(stored)
  /\ prefs = 0
  /\ devMode = FALSE

BadgeNext ==
  \/ BadgeStatusOnline
  \/ BadgeStatusOffline
  \/ BadgeTeamClicked
  \/ SetBadgeCount
  \/ SetConnectionStatus

BadgeSpec == BadgeStart /\ [][BadgeNext]_vars

\* ------------------------------------ actions of the team menu and focus
\* makeTeamPrimary(team) called on c throws at `team.webView.crashed`, after
\* it has subscribed to 'windowFocus'.
throwsAtCrashed(c, team) ==
  /\ team # NoTeam
  /\ team.webView = NoWebView
  /\ ~(c.primaryTeam # NoTeam /\ c.primaryTeam.team_id = team.team_id)

\* A handler of the controller that leads to c; team is the record the handler
\* itself hands to makeTeamPrimary (NoTeam when it hands none).
MenuHandler(c, op, isNull, incoming, team) ==
  /\ Commit(c, op, isNull, incoming)
  /\ menuPending' = (menuPending \/ updatesTeamMenu(c))
  /\ focusFollow' =
       (IF c.didMergeTeamList /\ ~isNull /\ ~c.ignored /\ Len(teamList) > 0
        THEN replacedRecords(focusFollow, teamList) ELSE focusFollow)
       \cup (IF throwsAtCrashed(This, team) THEN {focusSubscription(team)} ELSE {})
  /\ focused' = NoFocus
  /\ UNCHANGED <<netVars, evalVars, viewVars, badgeVars, downloadVars, signVars, menuItems>>

\* statusObservable emits true.
MenuStatusOnline ==
  MenuHandler(presentAvailableTeams(This, TRUE, << >>), "present", TRUE, << >>, NoTeam)

\* statusObservable emits false.
MenuStatusOffline ==
  \E isOnline \in BOOLEAN :
    MenuHandler(wentOffline(This, isOnline, reasonMethod), "offline", TRUE, << >>, NoTeam)

\* shouldUpdate with the list of the teams that are signed in, from a page.
MenuUpdate ==
  /\ attached # {}
  /\ \E updatedTeamList \in StoredLists :
       MenuHandler(presentAvailableTeams(closeLoginDialog(This), FALSE, updatedTeamList),
                   "present", FALSE, updatedTeamList, NoTeam)

\* teamSelector.clicked
MenuTeamClicked ==
  \E team_id \in Range(selector) :
    LET i == findIndex(teamList, team_id)
    IN MenuHandler(IF i # 0 THEN makeTeamPrimary(This, teamList[i]) ELSE This,
                   "clicked", TRUE, << team_id >>,
                   IF i # 0 THEN teamList[i] ELSE NoTeam)

\* teamSelector.sorted; its 'teams:update-menu' carries the same teams in
\* another order, which leaves the number of menu items as it is.
MenuSorted ==
  /\ Len(selector) >= 2
  /\ \E p \in Orders(Len(selector)) :
       MenuHandler(sorted(This, [i \in DOMAIN selector |-> selector[p[i]]]),
                   "sorted", TRUE, << >>, NoTeam)

\* attachToDom has run to its end: statusObservable, subscribed to in it, has
\* emitted its first value, so a status handler has run since the controller
\* was constructed.
AttachedToDom == last.op # "construct"

\* 'window:select-team' with the index of an item of the Window menu.
SelectTeam ==
  /\ AttachedToDom
  /\ \E index \in 0 .. (menuItems - 1) :
       MenuHandler(selectTeam(This, index), "selectTeam", TRUE, << index >>,
                   IF index + 1 \in DOMAIN teamList THEN teamList[index + 1] ELSE NoTeam)

\* 'displayTeam' from the page of a live webview, with the id of a user.
DisplayTeam ==
  /\ attached # {}
  /\ \E t \in TeamIds :
       LET hits == {i \in DOMAIN teamList : teamList[i].id = UserOf(t)}
       IN MenuHandler(displayTeam(This, UserOf(t)), "displayTeam", TRUE, << t >>,
                      IF hits = {} THEN NoTeam ELSE teamList[Min(hits)])

\* 'application:deep-link' with a slack: URL that names a team.
DeepLink ==
  /\ AttachedToDom
  /\ \E t \in TeamIds :
       LET i == findIndex(teamList, t)
       IN MenuHandler(handleDeepLink(This, t), "deepLink", TRUE, << t >>,
                      IF i # 0 /\ primaryTeam # NoTeam THEN teamList[i] ELSE NoTeam)

\* The window gets the focus: the browser sends 'windowFocus'.
WindowFocus ==
  /\ focused' = windowFocus(primaryTeamDisp, focusFollow, teamList)
  /\ UNCHANGED <<ctlVars, netVars, evalVars, viewVars, badgeVars, downloadVars, signVars,
                 menuItems, menuPending, focusFollow>>

\* A webViewLoaded that updateTeamMenu waits for fires: 'teams:update-menu'
\* goes to the browser with the list as it is then, and the menu is rebuilt.
UpdateTeamMenu ==
  /\ menuPending
  /\ menuItems' = updateTeamItems(menuItems, teamList)
  /\ menuPending' = FALSE
  /\ UNCHANGED <<ctlVars, netVars, evalVars, viewVars, badgeVars, downloadVars, signVars, focusFollow, focused>>

\* The window is reloaded: the renderer process and its subscriptions are
\* gone, the menu of the browser process stays.
MenuReload ==
  /\ Commit(constructed(localStorage), "construct", TRUE, << >>)
  /\ menuPending' = FALSE
  /\ focusFollow' = {}
  /\ focused' = NoFocus
  /\ UNCHANGED <<netVars, evalVars, viewVars, badgeVars, downloadVars, signVars, menuItems>>

\* The selection of teams: the window starts on a stored team list; the
\* network status goes online and offline, the pages report teams, the user
\* picks teams in the selector, the menu and by links, and reloads the window.
MenuStart ==
  /\ \E stored \in StoredLists : Started(stored)
  /\ prefs = 0
  /\ devMode = FALSE

MenuNext ==
  \/ MenuStatusOnline
  \/ MenuStatusOffline
  \/ MenuUpdate
  \/ MenuTeamClicked
  \/ MenuSorted
  \/ SelectTeam
  \/ DisplayTeam
  \/ DeepLink
  \/ WindowFocus
  \/ UpdateTeamMenu
  \/ MenuReload

MenuSpec == MenuStart /\ [][MenuNext]_vars

\* ------------------------------------------------ actions of the downloads
\* What the download actions leave alone.
DownloadFrame == UNCHANGED <<ctlVars, netVars, evalVars, viewVars, badgeVars, menuVars,
                             signVars>>

\* 'downloads:start' from the page, with the token it has just made.
StartDownload ==
  /\ \E t \in Tokens :
       /\ downloadsByToken[t] = NoMetadata /\ starting[t] = 0
       /\ starting' = startDownloadAwaits(starting, t)
  /\ UNCHANGED <<downloadsByToken, requests, retriedFailed>>
  /\ DownloadFrame

\* 'downloads:retry' from the page.
RetryDownload ==
  /\ \E t \in Tokens :
       /\ starting[t] < MaxStarting
       /\ starting' = retryDownload(downloadsByToken, starting, t)
       /\ starting' # starting
  /\ UNCHANGED <<downloadsByToken, requests, retriedFailed>>
  /\ DownloadFrame

\* getSingleFinishedLoadObservable fires in the constructor:
\* retryFailedDownloads() retries every token whose state is failed.
RECURSIVE retryFailedDownloads(_, _, _)
retryFailedDownloads(meta, s, todo) ==
  IF todo = {} THEN s
  ELSE LET t == CHOOSE x \in todo : TRUE
       IN retryFailedDownloads(meta,
            IF meta[t].state = "failed" THEN retryDownload(meta, s, t) ELSE s,
            todo \ {t})

RetryFailedDownloads ==
  /\ ~retriedFailed
  /\ \A t \in Tokens : starting[t] < MaxStarting
  /\ starting' = retryFailedDownloads(downloadsByToken, starting, Tokens)
  /\ retriedFailed' = TRUE
  /\ UNCHANGED <<downloadsByToken, requests>>
  /\ DownloadFrame

\* getUniqueFileForUrl has answered: a startDownload call goes on after its
\* `await`, stores new metadata and sends a new request.
StartDownloadResumes ==
  /\ made < MaxRequests
  /\ \E t \in Tokens :
       /\ starting[t] > 0
       /\ starting' = [starting EXCEPT ![t] = @ - 1]
       /\ downloadsByToken' = startDownloadResumes(downloadsByToken, t, made + 1)
       /\ requests' = [requests EXCEPT ![made + 1] = [token |-> t, status |-> "open"]]
  /\ UNCHANGED retriedFailed
  /\ DownloadFrame

\* 'downloads:cancel' from the page while the state is in_progress: the
\* request of the metadata is cancelled, which ends it with the reason canceled.
CancelDownload ==
  /\ \E t \in Tokens :
       /\ downloadsByToken[t].state = "in_progress"
       /\ requests' = IF downloadsByToken[t].request # NoRequest
                      THEN [requests EXCEPT ![downloadsByToken[t].request].status = "ended"]
                      ELSE requests
       /\ downloadsByToken' = onDownloadEnd(downloadsByToken, t, "canceled")
  /\ UNCHANGED <<starting, retriedFailed>>
  /\ DownloadFrame

\* A request in flight ends: with the response (onDownloadComplete) or with
\* an error of the reason failed (onDownloadErrorOrCanceled).
RequestEnds ==
  /\ \E r \in 1 .. MaxRequests, state \in {"completed", "failed"} :
       /\ requests[r].status = "open"
       /\ requests' = [requests EXCEPT ![r].status = "ended"]
       /\ downloadsByToken' = onDownloadEnd(downloadsByToken, requests[r].token, state)
  /\ UNCHANGED <<starting, retriedFailed>>
  /\ DownloadFrame

\* The window is reloaded: the requests and the calls of the old renderer
\* process are gone, the new DownloadManager restores the metadata that
\* save() has stored, without the requests.
DownloadReload ==
  /\ \E r \in 1 .. MaxRequests : requests[r].status # "none"
  /\ downloadsByToken' = [t \in Tokens |-> [downloadsByToken[t] EXCEPT !.request = NoRequest]]
  /\ starting' = [t \in Tokens |-> 0]
  /\ requests' = [r \in 1 .. MaxRequests |->
                    IF requests[r].status = "open"
                    THEN [requests[r] EXCEPT !.status = "ended"] ELSE requests[r]]
  /\ retriedFailed' = FALSE
  /\ DownloadFrame

\* The downloads of one webview: the page starts, cancels and retries
\* downloads, the requests end, the window is reloaded.
DownloadStart ==
  /\ Started(<< >>)
  /\ prefs = 0
  /\ devMode = FALSE

DownloadNext ==
  \/ StartDownload
  \/ RetryDownload
  \/ RetryFailedDownloads
  \/ StartDownloadResumes
  \/ CancelDownload
  \/ RequestEnds
  \/ DownloadReload

DownloadSpec == DownloadStart /\ [][DownloadNext]_vars

\* ------------------------------------------------ actions of the sign-outs
\* A handler of the controller that leads to c: the webviews it has called
\* refreshTeams() on have been asked.
SignOutHandler(c, op, isNull, incoming) ==
  /\ Commit(c, op, isNull, incoming)
  /\ refreshAsked' = refreshAsked \cup c.refreshTeams
  /\ UNCHANGED <<netVars, evalVars, viewVars, badgeVars, menuVars, downloadVars>>

\* statusObservable emits true.
SignOutStatusOnline ==
  /\ SignOutHandler(presentAvailableTeams(This, TRUE, << >>), "present", TRUE, << >>)
  /\ UNCHANGED <<signedOut, updates>>

\* teamSelector.clicked
SignOutTeamClicked ==
  /\ \E team_id \in Range(selector) :
       LET i == findIndex(teamList, team_id)
       IN SignOutHandler(IF i # 0 THEN makeTeamPrimary(This, teamList[i]) ELSE This,
                         "clicked", TRUE, << team_id >>)
  /\ UNCHANGED <<signedOut, updates>>

\* teamSelector.sorted
SignOutSorted ==
  /\ Len(selector) >= 2
  /\ \E p \in Orders(Len(selector)) :
       SignOutHandler(sorted(This, [i \in DOMAIN selector |-> selector[p[i]]]),
                      "sorted", TRUE, << >>)
  /\ UNCHANGED <<signedOut, updates>>

\* One of several teams whose pages are signed in signs out: its page closes,
\* the webview raises 'close' and the requestedClose handler of fetchTeam runs.
SignsOut ==
  \E w \in attached \ signedOut :
    /\ teamFromWebViewId(teamList, w) # 0
    /\ Len(signedInTeams(teamList, signedOut, 1)) >= 2
    /\ ~isAuthInvalidated
    /\ SignOutHandler(presentAvailableTeams(This, FALSE, signinFakeTeamInfo),
                      "present", FALSE, signinFakeTeamInfo)
    /\ signedOut' = signedOut \cup {w}
    /\ UNCHANGED updates

\* The page of a team that is signed in runs TS.refreshTeams(): it sends an
\* 'update' that carries the teams that are signed in.
PageAnswers ==
  \E w \in (refreshAsked \cap attached) \ signedOut :
    /\ refreshAsked' = refreshAsked \ {w}
    /\ updates' = updates \cup {signedInTeams(teamList, signedOut, 1)}
    /\ UNCHANGED <<ctlVars, netVars, evalVars, viewVars, badgeVars, menuVars,
                   downloadVars, signedOut>>

\* The page of a team that has signed out and has asked to be closed stays
\* in its webview until the webview is disposed.  What it does with
\* TS.refreshTeams() is up to the page: nothing, the list of a signin page, or
\* the teams that are signed in.
ClosedPageAnswers ==
  \E w \in refreshAsked \cap attached \cap signedOut :
    /\ refreshAsked' = refreshAsked \ {w}
    /\ \E answer \in {signinFakeTeamInfo, signedInTeams(teamList, signedOut, 1)} :
         updates' = updates \cup {answer}
    /\ UNCHANGED <<ctlVars, netVars, evalVars, viewVars, badgeVars, menuVars,
                   downloadVars, signedOut>>

\* An 'update' reaches the window: shouldUpdate runs.
UpdateDelivered ==
  \E updatedTeamList \in updates :
    /\ SignOutHandler(presentAvailableTeams(closeLoginDialog(This), FALSE, updatedTeamList),
                      "present", FALSE, updatedTeamList)
    /\ updates' = updates \ {updatedTeamList}
    /\ UNCHANGED signedOut

\* The sign-outs: the window starts on a stored team list, the status goes
\* online, the user clicks and sorts teams and teams sign out.  Nothing makes
\* a page that has signed out answer.  Every page that is
\* signed in and is asked for the teams answers, and every 'update' in flight
\* is delivered: UpdateDelivered is enabled whenever an update is in flight,
\* and its weak fairness is stated on that guard.
SignOutStart ==
  /\ \E stored \in StoredLists : Started(stored)
  /\ prefs = 0
  /\ devMode = FALSE

SignOutNext ==
  \/ SignOutStatusOnline
  \/ SignOutTeamClicked
  \/ SignOutSorted
  \/ SignsOut
  \/ PageAnswers
  \/ ClosedPageAnswers
  \/ UpdateDelivered

SignOutSpec ==
  /\ SignOutStart
  /\ [][SignOutNext]_vars
  /\ WF_vars(PageAnswers)
  /\ ([]<>(updates = {}) \/ []<><<UpdateDelivered>>_vars)

\* ------------------------------------------------------------------ claims
Present == last.op = "present"
\* presentAvailableTeams ran with a list and did not return early on a bogus one
Reconciled == Present /\ ~last.isNull /\ ~last.ignored

C2_WebViewPreserved ==
  Present =>
    \A i \in DOMAIN last.before : \A j \in DOMAIN teamList :
      (last.before[i].webView # NoWebView
         /\ teamList[j].team_id = last.before[i].team_id)
      => /\ teamList[j].webView = last.before[i].webView
         /\ last.before[i].webView \notin last.disposed

\* C2 witness: a merge has replaced the other fields of a team that kept its
\* webview.
C2_Witness ==
  /\ Present /\ last.didMergeTeamList
  /\ \E i \in DOMAIN last.before : \E j \in DOMAIN teamList :
       /\ last.before[i].webView # NoWebView
       /\ teamList[j].team_id = last.before[i].team_id
       /\ teamList[j].team_name # last.before[i].team_name
       /\ teamList[j].webView = last.before[i].webView

\* C3: no two records of the team list refer to the same webview.
C3_NoSharedWebView ==
  \A i, j \in DOMAIN teamList :
    (i # j /\ teamList[i].webView # NoWebView)
    => teamList[i].webView # teamList[j].webView

\* C3 witness: two teams, each with a webview, have just been reordered.
C3_Witness ==
  /\ last.op = "sorted"
  /\ Len(teamList) = 2
  /\ teamList[1].webView # NoWebView /\ teamList[2].webView # NoWebView
  /\ IdSeq(teamList) # IdSeq(last.before)

\* The ids of the list presentAvailableTeams merged: the empty list when the
\* sign-out of the last user was recognised.
MergedIds ==
  IF last.loggedOffTheLastUser THEN {} ELSE Ids(last.incoming)

\* C4: after presentAvailableTeams has processed a list that no longer holds a
\* (real) team's id, the team is gone from the list and its webview has been
\* disposed.
C4_RemovedTeamDisposed ==
  Reconciled =>
    \A i \in DOMAIN last.before :
      (last.before[i].team_id # SIGNIN /\ last.before[i].team_id \notin MergedIds)
      => /\ last.before[i].team_id \notin Ids(teamList)
         /\ last.before[i].webView # NoWebView
              => last.before[i].webView \in last.disposed

\* C5: a webview is displayed only if it is the webview of the primary team,
\* so at most one is, and none while the primary team is null.
C5_OnlyPrimaryVisible ==
  \A w \in visible \cap attached :
    primaryTeam # NoTeam /\ w = primaryTeam.webView

\* C5 witness: the user has switched between two teams that both have a
\* webview; the one switched to is displayed, the other is hidden.
C5_Witness ==
  /\ last.op = "clicked" /\ last.teamChanged = 1
  /\ last.primaryBefore # NoTeam
  /\ last.primaryBefore.webView \in attached \ visible
  /\ primaryTeam.webView \in attached \cap visible

\* C6: a non-null primary team is the record the list holds for its team_id.
C6_PrimaryIsListRecord ==
  primaryTeam # NoTeam => \E i \in DOMAIN teamList : teamList[i] = primaryTeam

\* C7: presentAvailableTeams called twice in a row with the same list leaves
\* the list as it was on the second call and disposes nothing.
C7_RepeatedListIsNoOp ==
  (Present /\ last.repeat) => (teamList = last.before /\ last.disposed = {})

\* C8: the first list received after the controller is constructed is merged
\* even when it names exactly the teams of the list read from local storage.
C8_FirstListMerged ==
  (Present /\ last.first /\ ~last.ignored
     /\ sortedIsEqual(IdSeq(last.before), IdSeq(last.incoming)))
  => last.didMergeTeamList

\* C9: with the list [T1 (webview W1)] and the incoming list [T1 under another
\* name], the list afterwards is one T1 record with W1 and the incoming name.
C9_ScenarioB ==
  (/\ Reconciled
   /\ Len(last.before) = 1 /\ Len(last.incoming) = 1
   /\ last.before[1].team_id \in TeamIds
   /\ last.before[1].webView # NoWebView
   /\ last.incoming[1].team_id = last.before[1].team_id
   /\ last.incoming[1].team_name # last.before[1].team_name)
  => /\ Len(teamList) = 1
     /\ teamList[1].team_id = last.before[1].team_id
     /\ teamList[1].webView = last.before[1].webView
     /\ teamList[1].team_name = last.incoming[1].team_name

\* Scenario A: the list is empty and presentAvailableTeams receives [T1].
ScenarioA ==
  /\ Reconciled
  /\ Len(last.before) = 0 /\ Len(last.incoming) = 1
  /\ last.incoming[1].team_id \in TeamIds

\* C10 as stated: the list becomes [T1], newTeams is [T1], nothing is disposed.
C10_ScenarioA_NewlyAdded ==
  ScenarioA => /\ Len(teamList) = 1
               /\ prepareTeamForSerialization(teamList[1]) = last.incoming[1]
               /\ last.newTeams = IdSeq(last.incoming)
               /\ last.toDispose = {} /\ last.disposed = {}

\* C10 amended: the list becomes [T1] and nothing is disposed, but the list is
\* used blindly: newTeams is empty, and T1 becomes primary only because no
\* team was.
C10_ScenarioA ==
  ScenarioA => /\ Len(teamList) = 1
               /\ prepareTeamForSerialization(teamList[1]) = last.incoming[1]
               /\ last.newTeams = << >>
               /\ last.toDispose = {} /\ last.disposed = {}
               /\ primaryTeam = teamList[1]

\* C10 witness: Scenario A has happened.
C10_Witness == ScenarioA /\ Len(teamList) = 1 /\ teamList[1].webView # NoWebView

\* Scenario C: the list holds two real teams, each with a webview, and
\* presentAvailableTeams receives a list of the first one only.
ScenarioC ==
  /\ Reconciled
  /\ Len(last.before) = 2 /\ Len(last.incoming) = 1
  /\ last.before[1].team_id \in TeamIds /\ last.before[2].team_id \in TeamIds
  /\ last.before[1].webView # NoWebView /\ last.before[2].webView # NoWebView
  /\ last.incoming[1].team_id = last.before[1].team_id

\* C11: in Scenario C the list becomes [T1] and the set to dispose is exactly
\* T2's webview, which is disposed; T1's webview is not in it.
C11_ScenarioC ==
  ScenarioC => /\ IdSeq(teamList) = << last.before[1].team_id >>
               /\ last.toDispose = {last.before[2].webView}
               /\ last.before[1].webView \notin last.toDispose
               /\ last.disposed = last.toDispose

\* C11 witness: Scenario C has happened and T1 has kept its webview.
C11_Witness ==
  ScenarioC /\ Len(teamList) = 1 /\ teamList[1].webView = last.before[1].webView

\* Scenario D: the list holds only the '__signin__' stub, which has a webview,
\* and presentAvailableTeams receives a list of real teams that is not empty.
ScenarioD ==
  /\ Reconciled
  /\ Len(last.before) = 1 /\ last.before[1].team_id = SIGNIN
  /\ last.before[1].webView # NoWebView
  /\ Len(last.incoming) >= 1
  /\ \A i \in DOMAIN last.incoming : last.incoming[i].team_id \in TeamIds

\* C12: in Scenario D the stub is replaced by the first incoming team, which
\* carries the stub's webview; that webview is neither disposed nor recreated
\* and no '__signin__' record remains.
C12_ScenarioD ==
  ScenarioD => /\ Len(teamList) = Len(last.incoming)
               /\ teamList[1].team_id = last.incoming[1].team_id
               /\ teamList[1].webView = last.before[1].webView
               /\ last.before[1].webView \notin last.disposed
               /\ last.before[1].webView \in attached
               /\ SIGNIN \notin Ids(teamList)

\* C12 witness: Scenario D has happened with a list of two teams.
C12_Witness ==
  ScenarioD /\ Len(teamList) = 2 /\ teamList[2].webView # NoWebView

\* presentAvailableTeams received the single '__signin__' entry with reason
\* didSignOut while the list held exactly one team.
SignOutOfLastTeam ==
  /\ Present /\ ~last.isNull
  /\ Len(last.before) = 1
  /\ last.incoming = signinFakeTeamInfo

\* C13: the sign-out of the only team is treated as an empty list: afterwards
\* the list is empty, no team is primary and the login dialog is shown.
C13_SignOutCollapse ==
  SignOutOfLastTeam => /\ teamList = << >>
                       /\ localStorage = << >>
                       /\ primaryTeam = NoTeam
                       /\ visible \cap attached = {}
                       /\ loginDialog.open /\ ~loginDialog.allowCancel

\* C13 witness: the only team, a real one that was primary, has signed out.
C13_Witness ==
  /\ SignOutOfLastTeam
  /\ last.before[1].team_id \in TeamIds
  /\ last.primaryBefore # NoTeam
  /\ last.loggedOffTheLastUser

\* The frame of a discarded update: list, primary team and webviews are as
\* they were and nothing is disposed.
Discarded ==
  /\ teamList = last.before
  /\ primaryTeam = last.primaryBefore
  /\ primaryTeamDisp = last.dispBefore
  /\ attached = last.attachedBefore /\ visible = last.visibleBefore
  /\ last.disposed = {} /\ last.toDispose = {}

\* C14 as stated: a list with a '__signin__' entry received on a non-empty list
\* (the sign-out of the last team apart) is discarded, and a refresh request is
\* sent to a team other than the stub that has a webview.
C14_NoiseDiscardedAndRefreshed ==
  (Present /\ last.ignored) =>
    /\ Discarded
    /\ \E i \in DOMAIN last.before :
         /\ last.before[i].id # SIGNIN /\ last.before[i].webView # NoWebView
         /\ last.refreshTeams = {last.before[i].webView}

\* C14 amended: the update is discarded; the refresh request goes to the first
\* team other than the stub that has a webview, and to none when there is no
\* such team.
C14_NoiseDiscarded ==
  (Present /\ last.ignored) =>
    /\ Discarded
    /\ last.refreshTeams =
         {last.before[i].webView : i \in
            {i \in DOMAIN last.before :
               /\ last.before[i].id # SIGNIN /\ last.before[i].webView # NoWebView
               /\ \A j \in 1..(i - 1) :
                    last.before[j].id = SIGNIN \/ last.before[j].webView = NoWebView}}

\* C14 witness: a placeholder list was discarded on a list of two teams and
\* the first team's webview was asked to refresh.
C14_Witness ==
  /\ Present /\ last.ignored
  /\ Len(last.before) = 2
  /\ last.refreshTeams = {last.before[1].webView}
  /\ last.before[1].webView # NoWebView

\* The click handler has called makeTeamPrimary with the team it called it with
\* just before.
SecondMakePrimary ==
  /\ last.op = "clicked" /\ last.repeatClick
  /\ last.incoming[1] \in Ids(last.before)

\* C15: the second of two consecutive makeTeamPrimary calls with the same team
\* sends no team-changed message, replaces no disposable and shows or hides no
\* webview.
C15_PrimaryIdempotent ==
  SecondMakePrimary => /\ last.teamChanged = 0
                       /\ primaryTeamDisp = last.dispBefore
                       /\ visible = last.visibleBefore
                       /\ primaryTeam = last.primaryBefore

\* C15 witness: the second call was made on the team the first had made
\* primary, whose webview is displayed.
C15_Witness ==
  /\ SecondMakePrimary
  /\ primaryTeam # NoTeam /\ primaryTeam.team_id = last.incoming[1]
  /\ primaryTeam.webView \in visible \cap attached
  /\ Len(teamList) = 2

\* statusObservable has just emitted false and its subscriber has run.
EmittedOffline == obs.step = "emit" /\ last.op = "offline"

\* C16: when the network status leaves online, the primary team is cleared at
\* once: after the subscriber has run no team is primary and no team webview
\* is displayed.
C16_OfflineClearsPrimary ==
  EmittedOffline => /\ currentStatus = "false"
                    /\ primaryTeam = NoTeam
                    /\ visible \cap attached = {}

\* C16 witness: the status has left online while a team was displayed.
C16_Witness ==
  /\ EmittedOffline
  /\ last.primaryBefore # NoTeam
  /\ last.primaryBefore.webView \in last.visibleBefore
  /\ Len(obs.emitted) > 0

\* C17: when the status leaves online, the "slack is down" message is shown if
\* the browser reports online (so a probe has failed) and the "offline"
\* message if the browser reports offline.
C17_ScreenByBrowser ==
  EmittedOffline =>
    loadingScreen = IF browserOnline THEN "slackDown" ELSE "offline"

ScenarioE ==
  /\ obs.fails >= 3 /\ obs.spaced /\ obs.quiet /\ obs.onlineAtFirstFailure

\* C19: in Scenario E the status observable emits false once, after the first
\* failure, and, once a probe has succeeded, true once: nothing else.
C19_ScenarioE ==
  ScenarioE =>
    /\ obs.emitted \in {<< "false" >>, << "false", "true" >>}
    /\ (obs.succeeded /\ throttled = "none") => obs.emitted = << "false", "true" >>
    /\ obs.emitted = << "false", "true" >> => obs.succeeded

\* C19 witness: Scenario E has ended with a successful probe and online emitted.
C19_Witness ==
  /\ ScenarioE /\ obs.succeeded /\ throttled = "none"
  /\ obs.emitted = << "false", "true" >> /\ currentStatus = "true"

\* C20 as stated: a failed probe never ends the check loop, however many have
\* failed; a successful one ends it, and online is then reported.
C20_RetryUntilOnline ==
  /\ [](obs.step = "probeFailed" => checking = "running")
  /\ [](obs.step = "probeSucceeded" => checking = "idle")
  /\ (obs.step = "probeSucceeded") ~> (currentStatus = "true")

\* C20 amended: a failed probe never ends the check loop, however many have
\* failed; a successful one ends it, and online is then reported unless an
\* offline event or "Try Again" comes before throttle lets the value go.
C20_RetryUntilSuccess ==
  /\ [](obs.step = "probeFailed" => checking = "running")
  /\ [](obs.step = "probeSucceeded" => checking = "idle")
  /\ (obs.step = "probeSucceeded")
       ~> (currentStatus = "true" \/ obs.step \in {"offline", "checkNow"})

\* C20 witness: probes have failed, one has succeeded, the loop has stopped and
\* online has been emitted.
C20_Witness ==
  /\ obs.fails >= 2 /\ obs.succeeded /\ checking = "idle"
  /\ obs.step = "emit" /\ currentStatus = "true"

Settled(c) == c.state # "pending"

\* C22: whatever the order in which concurrent calls of executeJavaScript are
\* made and their responses delivered, a call that a message has settled was
\* settled by the message that carries its own correlation id.
C22_SettledByOwnResponse ==
  \A i \in DOMAIN calls : calls[i].by # NoMessage => calls[i].by = calls[i].id

\* The second call has been settled by its response while the first, made
\* before it, is pending with its response on the way.
C22_Witness ==
  /\ Len(calls) >= 2
  /\ calls[2].by = calls[2].id
  /\ calls[1].state = "pending"
  /\ \E x \in ipc : where(x, calls[1])

\* C23: a call whose own response carries an error is rejected (onError)
\* and not resolved with a value.
C23_ErrorRejects ==
  \A i \in DOMAIN calls :
    calls[i].by = calls[i].id /\ calls[i].evaluated = "throw"
      => calls[i].state = "error"

\* C24: a call is pending for at most the 10 seconds of the timeout; the
\* timeout resolves it to null and does not reject it; a call is settled once,
\* and a response that arrives after it has been settled changes nothing.
C24_TimeoutResolvesNull ==
  \A i \in DOMAIN calls :
    /\ ~Settled(calls[i]) => calls[i].age <= TimeoutTicks /\ calls[i].settles = 0
    /\ Settled(calls[i]) => calls[i].settles = 1
    /\ Settled(calls[i]) /\ calls[i].by = NoMessage => calls[i].state = "null"

\* The timeout has resolved a call to null and its response has arrived since.
C24_Witness ==
  \E i \in DOMAIN calls :
    /\ calls[i].state = "null" /\ calls[i].by = NoMessage
    /\ calls[i].age = TimeoutTicks
    /\ calls[i].late

\* C25: outside development mode, the 'Load timeout' of every team's
\* webview, primary or not, whose page is not ready after 32 seconds reaches
\* handleWebViewCrash.
C25_LoadTimeoutHandled ==
  crashLog.type = "Load timeout" => crashLog.handled

\* C26: a Renderer or GPU crash of the webview of any team of the list has
\* 'window:reload' sent, and a Plugin crash never has.
C26_CrashReloads ==
  /\ crashLog.type \in {"Renderer", "GPU"} => crashLog.reload
  /\ crashLog.type \in PluginCrashes => ~crashLog.reload

\* C27: once dispose() has been called on a context, its webview is out of
\* the host, none of its subscriptions is left, and no message or close event
\* of it has reached the controller since.
C27_DisposedIsSilent ==
  /\ \A w \in Contexts :
       Disposed(w) => w \notin attached /\ subscriptions(w) = {}
  /\ ~lateLog.disposed

\* The counts the team t has reported last, 0 when it has reported none, and
\* the rank of the status it has reported last.
UnreadOf(t) ==
  IF badgeInfo[t].set /\ badgeInfo[t].unread # Undefined THEN badgeInfo[t].unread ELSE 0
HighlightsOf(t) ==
  IF badgeInfo[t].set /\ badgeInfo[t].unreadHighlights # Undefined
  THEN badgeInfo[t].unreadHighlights ELSE 0
RankOf(t) ==
  CASE reported[t] = "online" -> 0
    [] reported[t] = "connecting" -> 1
    [] reported[t] = "offline" -> 2

\* The sum of the unread counts, or of the highlights, of the teams of the
\* list from the i-th.
RECURSIVE SumFrom(_, _)
SumFrom(i, highlights) ==
  IF i > Len(teamList) THEN 0
  ELSE (IF highlights THEN HighlightsOf(teamList[i].team_id)
        ELSE UnreadOf(teamList[i].team_id)) + SumFrom(i + 1, highlights)

\* A badge message of the webview of a team of the list was handled last.
BadgeMessage == badgeLog.channel # "none" /\ badgeLog.registry

\* C28: after a setBadgeCount or setConnectionStatus message, the badge
\* manager holds the sum of the teams' unread counts, the sum of their
\* unread highlights, and the worst of their connection statuses under
\* online < connecting < offline.
C28_GlobalBadgeIsFold ==
  BadgeMessage =>
    LET ids == Ids(teamList)
    IN /\ globalBadge.unread = SumFrom(1, FALSE)
       /\ globalBadge.unreadHighlights = SumFrom(1, TRUE)
       /\ \E t \in ids : globalBadge.connectionStatus = reported[t]
       /\ \A t \in ids :
            RankOf(t) <= sortableConnectionStatus(globalBadge.connectionStatus)

\* C29: every setBadgeCount or setConnectionStatus message of the webview of
\* a team of the list has setGlobalBadgeCount called once while it is handled,
\* a team being primary or not.
C29_EveryMessageRecomputes ==
  BadgeMessage => badgeLog.delivered /\ ~badgeLog.threw

\* presentAvailableTeams has run to its end, with a list or without one, and
\* has left a team list that is not empty.
Completed ==
  Present /\ ~last.ignored /\ ~last.threw /\ Len(teamList) > 0

\* C30: after every run of presentAvailableTeams that completes with a team
\* list that is not empty, every team of the list, the ones just added
\* included, has a webview and a webViewLoaded.
C30_AllTeamsFetched ==
  Completed =>
    \A i \in DOMAIN teamList :
      teamList[i].webView # NoWebView /\ teamList[i].webViewLoaded # NoWebView

\* A list has added a team next to one that was there, and both have a
\* webview and a webViewLoaded.
C30_Witness ==
  /\ Completed /\ ~last.isNull
  /\ Len(last.before) >= 1 /\ Len(last.newTeams) >= 1 /\ Len(teamList) = 2
  /\ \A i \in DOMAIN teamList :
       teamList[i].webView # NoWebView /\ teamList[i].webViewLoaded # NoWebView


\* C37: when the status returns to online right after it left online, and
\* the team list is the one it left with, the team that was primary when the
\* status left online is the primary team after presentAvailableTeams.
C37_PrimaryRestored ==
  [][(/\ last.op = "offline" /\ last.primaryBefore # NoTeam
      /\ last'.op = "present" /\ last'.isNull
      /\ IdSeq(teamList') = IdSeq(last.before))
     => (/\ primaryTeam' # NoTeam
         /\ primaryTeam'.team_id = last.primaryBefore.team_id)]_vars

\* C35: while the value emitted last by statusObservable is false, no team is
\* primary and the "offline" or "slack is down" message stays on the loading
\* screen, whatever handler runs in between.
C35_OfflineStaysCleared ==
  currentStatus = "false" => /\ primaryTeam = NoTeam
                             /\ loadingScreen \in {"offline", "slackDown"}

\* C38: a badge message changes only the fields it carries: 'setBadgeCount'
\* leaves the connection status that is stored for a team as it was, and
\* 'setConnectionStatus' leaves the stored unread counts as they were.
C38_BadgeFieldsKept ==
  [][\A t \in TeamIds \cup {SIGNIN} :
       /\ (badgeLog'.channel = "setBadgeCount"
             /\ badgeInfo[t].connectionStatus # Undefined)
          => badgeInfo'[t].connectionStatus = badgeInfo[t].connectionStatus
       /\ (badgeLog'.channel = "setConnectionStatus" /\ badgeInfo[t].set)
          => /\ badgeInfo'[t].unread = badgeInfo[t].unread
             /\ badgeInfo'[t].unreadHighlights = badgeInfo[t].unreadHighlights]_vars

\* The webview of the primary team, NoWebView while no team is primary.
PrimaryWebView == IF primaryTeam = NoTeam THEN NoWebView ELSE primaryTeam.webView

\* C31: the live subscriptions that makeTeamPrimary has made are those of the
\* current primary team, held by primaryTeamDisp, and no other: no
\* subscription to 'windowFocus' is left over from an earlier call, and a
\* 'windowFocus' event gives focus to the webview of the primary team only.
C31_OnlyPrimarySubscribed ==
  /\ focusFollow = {}
  /\ primaryTeamDisp = PrimaryWebView
  /\ focused.fired => /\ ~focused.threw
                      /\ focused.targets \subseteq ({PrimaryWebView} \ {NoWebView})

\* A handler has just handed a team of the list to makeTeamPrimary: a click on
\* the selector, 'window:select-team' with an index of the list, 'displayTeam'.
HandedTeam ==
  \/ last.op = "clicked" /\ last.incoming[1] \in Ids(last.before)
  \/ last.op = "selectTeam" /\ last.incoming[1] < Len(last.before)
  \/ last.op = "displayTeam" /\ last.incoming[1] \in Ids(last.before)

\* C32: makeTeamPrimary(team) is all or nothing for every team of the list,
\* one without a webview included: either the observers are told
\* ('teams:team-changed'), the team is the primary team, primaryTeamDisp holds
\* its subscriptions and its webview is displayed, or the primary team, the
\* webviews displayed, the loading screen and the subscriptions are as before
\* and nobody is told.
C32_MakePrimaryAtomic ==
  [][HandedTeam' =>
       \/ /\ last'.teamChanged = 1
          /\ primaryTeam' # NoTeam
          /\ primaryTeamDisp' = primaryTeam'.webView
          /\ primaryTeam'.webView \in visible'
          /\ focusFollow' = focusFollow
       \/ /\ last'.teamChanged = 0
          /\ UNCHANGED <<primaryTeam, primaryTeamDisp, visible, loadingScreen, focusFollow>>]_vars

\* C36: 'window:select-team' with an index that names no team of the list
\* leaves the primary team, the webviews displayed and the loading screen as
\* they were.
C36_BadIndexIgnored ==
  [][(last'.op = "selectTeam" /\ last'.incoming[1] >= Len(last'.before))
       => UNCHANGED <<primaryTeam, visible, loadingScreen>>]_vars

\* C33: only presentAvailableTeams (the reconciler) adds a team to the list or
\* removes one: every other handler, the reordering of the selector, the
\* selection of a team and the reload of the window included, leaves the
\* teams of the list the same.
C33_OnlyReconcilerChangesMembership ==
  [][last'.op # "present"
       => (Ids(teamList') = Ids(teamList) /\ Len(teamList') = Len(teamList))]_vars

\* C33 witness: the selector has been reordered with two teams in the list,
\* and the list has taken the new order.
C33_Witness ==
  /\ last.op = "sorted"
  /\ Len(teamList) = 2
  /\ teamList # last.before
  /\ Ids(teamList) = Ids(last.before)

\* C34: a primary team that is not null is a team of the list.
C34_PrimaryInRegistry ==
  primaryTeam # NoTeam => primaryTeam.team_id \in Ids(teamList)

\* C34 witness: a reconciliation has removed the team that was primary and
\* left another one, which is primary now.
C34_Witness ==
  /\ Present /\ ~last.threw
  /\ last.primaryBefore # NoTeam
  /\ last.primaryBefore.team_id \notin Ids(teamList)
  /\ primaryTeam # NoTeam
  /\ primaryTeam.team_id \in Ids(last.before)

\* C40: no token has two requests in flight at a time, whatever the order of
\* the start, retry and cancel messages of the token.
C40_OneRequestInFlight ==
  \A t \in Tokens : Cardinality(InFlight(t)) <= 1

\* C39: when one of several signed-in teams signs out, its team is eventually
\* gone from the list and its webview disposed, given that every page that
\* is signed in answers a request for the teams.
C39_SignedOutTeamRemoved ==
  \A w \in 1 .. MaxWebViews :
    (w \in signedOut) ~> (w \notin attached /\ teamFromWebViewId(teamList, w) = 0)

=============================================================================
